---- MODULE Spec2Model ----
(***************************************************************************)
(* Mass and charge balancing of an SBML metabolic model:                   *)
(*   scripts/curation/balance_model_reactions.py  (class ModelBalancer)    *)
(*   scripts/curation/balance_reactions.py        (analysis only)          *)
(*                                                                         *)
(* Numbers.  Stoichiometric coefficients, element balances and charge      *)
(* balances are Python floats; they are kept here as integers counted in   *)
(* hundredths (1.0 is 100), so the tolerances 0.01 and 0.1 of the code are *)
(* 1 and 10.                                                               *)
(*                                                                         *)
(* COBRApy.  The scripts drive cobra.Reaction objects.  Two behaviours of  *)
(* that library decide what the scripts do and are modelled as the library *)
(* implements them:                                                        *)
(*   - Reaction.metabolites is a property returning a COPY of the          *)
(*     reaction's internal dict (`return self._metabolites.copy()`), so an *)
(*     item assignment or a clear() on it does not reach the reaction;     *)
(*   - Reaction.add_metabolites(d) (combine=True by default) ADDS each     *)
(*     coefficient of d to the coefficient the reaction already has,       *)
(*     appends metabolites that are new, and finally drops every           *)
(*     metabolite whose coefficient became 0.                              *)
(***************************************************************************)
EXTENDS Integers, Sequences, FiniteSets, TLC

VARIABLES
    model_metabolites,  \* self.model.metabolites: sequence of metabolites (keys of Universe)
    reactions,          \* self.model.reactions: sequence of reaction records
    input_reactions,    \* the reactions as loaded (history)
    balance_report,     \* self.balance_report
    pc,                 \* position in run_balancing
    mi,                 \* position in the mass loop of fix_all_reactions
    ci,                 \* position in the charge loop of fix_all_reactions
    calls,              \* history: one record per balance_reaction_* call
    ri,                 \* position in analyze_model_balance
    results,            \* analyze_model_balance: results
    dry_run,            \* the --dry-run flag of the standalone fixers
    fixes_made,         \* the counter a standalone fixer returns
    formula_input,      \* the argument of a parse_formula call
    parsed,             \* what the call returned
    runs,               \* how many earlier runs of run_balancing made the loaded model
    kegg,               \* a KEGGClient and the call it is executing
    validator,          \* a ModelValidator and its run_validation call
    pipeline,           \* a SequentialPipeline and its run_pipeline call
    enricher            \* an APIEnricher and the api_request call it is executing

vars == <<model_metabolites, reactions, input_reactions, balance_report,
          pc, mi, ci, calls, ri, results, dry_run, fixes_made,
          formula_input, parsed, runs, kegg, validator, pipeline, enricher>>

\* the variables of a single parse_formula call
parse_vars == <<formula_input, parsed>>

\* the variables of the objects that are not part of the balancing scripts
service_vars == <<kegg, validator, pipeline, enricher>>

\* no such object has been constructed
NotConstructed == [pc |-> "none"]

ServicesIdle ==
    /\ kegg = NotConstructed
    /\ validator = NotConstructed
    /\ pipeline = NotConstructed
    /\ enricher = NotConstructed

----------------------------------------------------------------------------
(* Bounds *)

\* largest number of metabolites of a generated reaction
MaxMets == 3

----------------------------------------------------------------------------
(* Numbers *)

\* 0.01, the tolerance of every comparison in ModelBalancer, in hundredths
TOL == 1

\* 0.1, the tolerance of the water-consistency test, in hundredths
WATER_TOL == 10

\* the value 1.0 stored under the key 'unknown', in hundredths
UNKNOWN_VALUE == 100

Abs(x) == IF x < 0 THEN -x ELSE x

RECURSIVE SetMax(_)
SetMax(S) ==
    IF S = {} THEN 0
    ELSE LET x == CHOOSE y \in S : TRUE
             m == SetMax(S \ {x})
         IN  IF x > m THEN x ELSE m

Range(s) == {s[i] : i \in 1..Len(s)}

----------------------------------------------------------------------------
(* Formulas are strings, kept as sequences of one-character strings. *)

UpperCase == {"C", "H", "O", "N", "P", "E", "U", "L"}
LowerCase == {"a", "c", "h", "o", "n", "p", "e", "u", "l"}
Digit == {"0", "1", "2", "3", "4", "5", "6", "7", "8", "9"}

DigitValue(ch) ==
    CASE ch = "0" -> 0 [] ch = "1" -> 1 [] ch = "2" -> 2 [] ch = "3" -> 3
      [] ch = "4" -> 4 [] ch = "5" -> 5 [] ch = "6" -> 6 [] ch = "7" -> 7
      [] ch = "8" -> 8 [] ch = "9" -> 9

\* int(count) for a non-empty run of digits
RECURSIVE ToInt(_)
ToInt(ds) ==
    IF ds = <<>> THEN 0
    ELSE 10 * ToInt(SubSeq(ds, 1, Len(ds) - 1)) + DigitValue(ds[Len(ds)])

\* end (exclusive) of the longest run of digits of f starting at i
RECURSIVE DigitsEnd(_, _)
DigitsEnd(f, i) ==
    IF i <= Len(f) /\ f[i] \in Digit THEN DigitsEnd(f, i + 1) ELSE i

\* re.findall with the flag re.IGNORECASE
RECURSIVE FindAll_ignorecase(_, _)
FindAll_ignorecase(f, i) ==
    IF i > Len(f) THEN <<>>
    ELSE IF f[i] \in UpperCase \cup LowerCase
         THEN LET j == IF i + 1 <= Len(f) /\ f[i + 1] \in UpperCase \cup LowerCase
                       THEN i + 2 ELSE i + 1
                  k == DigitsEnd(f, j)
              IN  <<[element |-> SubSeq(f, i, j - 1),
                     count   |-> SubSeq(f, j, k - 1)]>> \o FindAll_ignorecase(f, k)
         ELSE FindAll_ignorecase(f, i + 1)

\* re.findall(r'([A-Z][a-z]?)(\d*)', f) from position i:
\* the sequence of (element, count string) matches, left to right
RECURSIVE FindAll(_, _)
FindAll(f, i) ==
    IF i > Len(f) THEN <<>>
    ELSE IF f[i] \in UpperCase
         THEN LET j == IF i + 1 <= Len(f) /\ f[i + 1] \in LowerCase
                       THEN i + 2 ELSE i + 1
                  k == DigitsEnd(f, j)
              IN  <<[element |-> SubSeq(f, i, j - 1),
                     count   |-> SubSeq(f, j, k - 1)]>> \o FindAll(f, k)
         ELSE FindAll(f, i + 1)

\* d[k] += v on a dict with default 0
DictAdd(d, k, v) ==
    IF k \in DOMAIN d THEN [d EXCEPT ![k] = @ + v] ELSE d @@ (k :> v)

EmptyDict == [k \in {} |-> 0]

\* the accumulation loop with `elements[element] = count`
RECURSIVE Accumulate_overwrite(_, _)
Accumulate_overwrite(matches, elements) ==
    IF matches = <<>> THEN elements
    ELSE LET m == Head(matches)
             count == IF m.count = <<>> THEN 1 ELSE ToInt(m.count)
         IN  Accumulate_overwrite(Tail(matches),
                [k \in DOMAIN elements \cup {m.element} |->
                    IF k = m.element THEN count ELSE elements[k]])

\* the accumulation loop over the matches
RECURSIVE Accumulate(_, _)
Accumulate(matches, elements) ==
    IF matches = <<>> THEN elements
    ELSE LET m == Head(matches)
             count == IF m.count = <<>> THEN 1 ELSE ToInt(m.count)
         IN  Accumulate(Tail(matches), DictAdd(elements, m.element, count))

\* str.replace(ch, '') for each ch of cs
RemoveChars(f, cs) == SelectSeq(f, LAMBDA ch : ch \notin cs)

\* ModelBalancer.parse_formula
ModelBalancer_parse_formula(formula) ==
    IF formula = <<>> THEN EmptyDict
    ELSE Accumulate(FindAll(RemoveChars(formula, {"+", "-"}), 1), EmptyDict)

\* str.lower
ToLower(ch) ==
    CASE ch = "C" -> "c" [] ch = "H" -> "h" [] ch = "O" -> "o" [] ch = "N" -> "n"
      [] ch = "P" -> "p" [] ch = "E" -> "e" [] ch = "U" -> "u" [] ch = "L" -> "l"
      [] OTHER -> ch

lower(f) == [i \in 1..Len(f) |-> ToLower(f[i])]

\* start of the match of r'[+-]\d*$' in f, or 0: a sign followed by nothing
\* but digits up to the end of the string
ChargeSuffixStart(f) ==
    LET Starts == {i \in 1..Len(f) :
                      /\ f[i] \in {"+", "-"}
                      /\ \A j \in (i + 1)..Len(f) : f[j] \in Digit}
    IN  IF Starts = {} THEN 0 ELSE CHOOSE i \in Starts : \A j \in Starts : i <= j

\* balance_reactions.parse_formula
parse_formula(formula) ==
    IF \/ formula = <<>>
       \/ lower(formula) \in {<<"n", "o", "n", "e">>, <<"n", "u", "l", "l">>}
    THEN EmptyDict
    ELSE LET i == ChargeSuffixStart(formula)
             formula_clean == IF i = 0 THEN formula ELSE SubSeq(formula, 1, i - 1)
         IN  Accumulate(FindAll(formula_clean, 1), EmptyDict)

\* balance_reactions.get_charge_from_formula
get_charge_from_formula(formula) ==
    LET i == ChargeSuffixStart(formula)
        digits == SubSeq(formula, i + 1, Len(formula))
    IN  IF formula = <<>> \/ i = 0 THEN 0
        ELSE (IF formula[i] = "+" THEN 1 ELSE -1)
             * (IF digits = <<>> THEN 1 ELSE ToInt(digits))

----------------------------------------------------------------------------
(* The metabolites a model can hold.  id is the identifier split at its    *)
(* first '_'; formula <<>> is a metabolite without formula; charge 0 also  *)
(* stands for an absent charge (the code reads `charge or 0`).             *)

H == <<"H">>
O == <<"O">>
UNKNOWN == <<"unknown">>

MetA == "cpd10001_c"
MetB == "cpd10002_c"
MetD == "cpd10003_c"
MetX == "cpd10004_c"
MetE == "cpd10001_e"
MetF == "cpd10002_e"
MetProton == "cpd00067_c"
MetH == "h_c"
MetH0 == "h_c0"
MetWater == "cpd00001_c"

Universe ==
    (MetA :> [id |-> <<"cpd10001", "c">>, formula |-> <<"C">>,
              charge |-> 0, compartment |-> "c"])
 @@ (MetB :> [id |-> <<"cpd10002", "c">>, formula |-> <<"C", "H">>,
              charge |-> 1, compartment |-> "c"])
 @@ (MetD :> [id |-> <<"cpd10003", "c">>, formula |-> <<"C", "H", "2", "O">>,
              charge |-> -1, compartment |-> "c"])
 @@ (MetX :> [id |-> <<"cpd10004", "c">>, formula |-> <<>>,
              charge |-> -1, compartment |-> "c"])
 @@ (MetE :> [id |-> <<"cpd10001", "e">>, formula |-> <<"C">>,
              charge |-> -1, compartment |-> "e"])
 @@ (MetF :> [id |-> <<"cpd10002", "e">>, formula |-> <<"C", "H">>,
              charge |-> 1, compartment |-> "e"])
 @@ (MetProton :> [id |-> <<"cpd00067", "c">>, formula |-> <<"H">>,
              charge |-> 1, compartment |-> "c"])
 @@ (MetH :> [id |-> <<"h", "c">>, formula |-> <<"H">>,
              charge |-> 1, compartment |-> "c"])
 @@ (MetH0 :> [id |-> <<"h", "c0">>, formula |-> <<"H">>,
              charge |-> 1, compartment |-> "c0"])
 @@ (MetWater :> [id |-> <<"cpd00001", "c">>, formula |-> <<"H", "2", "O">>,
              charge |-> 0, compartment |-> "c"])

\* self.formula_patterns
formula_patterns ==
    [p \in {"cpd00001", "cpd00067", "cpd00011", "cpd00007"} |->
        CASE p = "cpd00001" -> <<"H", "2", "O">>
          [] p = "cpd00067" -> <<"H">>
          [] p = "cpd00011" -> <<"C", "O", "2">>
          [] p = "cpd00007" -> <<"O", "2">>]

\* str.startswith on an identifier, for a prefix that is a whole head
startswith(id, prefix) == id[1] = prefix

\* ModelBalancer.get_metabolite_formula (no metabolite carries a 'formula'
\* annotation); <<>> is None
get_metabolite_formula(m) ==
    IF Universe[m].formula # <<>> THEN Universe[m].formula
    ELSE IF Universe[m].id[1] \in DOMAIN formula_patterns
         THEN formula_patterns[Universe[m].id[1]]
         ELSE <<>>

----------------------------------------------------------------------------
(* cobra.Reaction: id (split at its first '_') and the ordered dict        *)
(* _metabolites, a sequence of [met, coef] entries.                        *)

Keys(d) == {d[i].met : i \in 1..Len(d)}

\* reaction.metabolites: a copy of the dict
metabolites(r) == r.mets

\* one entry of add_metabolites: combine with an existing entry or append
AddOne(d, e) ==
    IF e.met \in Keys(d)
    THEN [i \in 1..Len(d) |->
            IF d[i].met = e.met THEN [d[i] EXCEPT !.coef = @ + e.coef] ELSE d[i]]
    ELSE Append(d, e)

RECURSIVE AddAll(_, _)
AddAll(d, toAdd) ==
    IF toAdd = <<>> THEN d ELSE AddAll(AddOne(d, Head(toAdd)), Tail(toAdd))

\* reaction.add_metabolites(metabolites_to_add)
add_metabolites(r, toAdd) ==
    [r EXCEPT !.mets = SelectSeq(AddAll(r.mets, toAdd), LAMBDA e : e.coef # 0)]

\* reaction.metabolites[met] -= x : the assignment lands in the copy
subtract_in_view(r, m, x) == r

\* reaction.metabolites.clear() : the copy is cleared
clear_view(r) == r

----------------------------------------------------------------------------
(* ModelBalancer *)

\* ModelBalancer.calculate_mass_balance: the loop over the metabolites
RECURSIVE MassLoop(_, _)
MassLoop(d, element_balance) ==
    IF d = <<>> THEN element_balance
    ELSE LET formula == get_metabolite_formula(Head(d).met)
             elements == ModelBalancer_parse_formula(formula)
             RECURSIVE AddElements(_, _)
             AddElements(es, eb) ==
                 IF es = {} THEN eb
                 ELSE LET el == CHOOSE x \in es : TRUE
                      IN  AddElements(es \ {el},
                              DictAdd(eb, el, Head(d).coef * elements[el]))
         IN  IF formula = <<>> THEN (UNKNOWN :> UNKNOWN_VALUE)
             ELSE MassLoop(Tail(d), AddElements(DOMAIN elements, element_balance))

calculate_mass_balance(r) == MassLoop(metabolites(r), EmptyDict)

\* ModelBalancer.calculate_charge_balance
RECURSIVE ChargeLoop(_)
ChargeLoop(d) ==
    IF d = <<>> THEN 0
    ELSE Head(d).coef * Universe[Head(d).met].charge + ChargeLoop(Tail(d))

calculate_charge_balance(r) == ChargeLoop(metabolites(r))

\* ModelBalancer.is_transport_reaction
is_transport_reaction(r) ==
    Cardinality({Universe[m].compartment : m \in Keys(metabolites(r))}) > 1

\* ModelBalancer.is_exchange_reaction
is_exchange_reaction(r) ==
    \/ startswith(r.id, "EX")
    \/ startswith(r.id, "DM")
    \/ startswith(r.id, "SK")
    \/ Len(metabolites(r)) = 1

\* max(abs(val) for val in element_balance.values()) if element_balance else 0
max_imbalance(eb) == SetMax({Abs(eb[k]) : k \in DOMAIN eb})

\* dict.get(key, 0)
Get(eb, k) == IF k \in DOMAIN eb THEN eb[k] ELSE 0

NoCompartment == "None"
NoMet == "None"

\* the position at which a `for ...: if ...: ...; break` loop stops, given
\* the positions that pass its test; 0 when none does
FirstIndex(positions) ==
    IF positions = {} THEN 0
    ELSE CHOOSE i \in positions : \A j \in positions : i <= j

\* the loop `for metabolite in self.model.metabolites: if id.startswith(prefix)
\* and compartment == main_compartment: ...; break`
find_species(mets, prefix, main_compartment) ==
    LET i == FirstIndex({j \in 1..Len(mets) :
                            /\ startswith(Universe[mets[j]].id, prefix)
                            /\ Universe[mets[j]].compartment = main_compartment})
    IN  IF i = 0 THEN NoMet ELSE mets[i]

\* compartment of the first metabolite that is not a proton (fix_proton_balance)
first_non_proton_compartment(r) ==
    LET d == metabolites(r)
        i == FirstIndex({j \in 1..Len(d) :
                            ~startswith(Universe[d[j].met].id, "cpd00067")})
    IN  IF i = 0 THEN NoCompartment ELSE Universe[d[i].met].compartment

\* compartment of the first metabolite (fix_water_balance, balance_reaction_charge)
first_compartment(r) ==
    IF metabolites(r) = <<>> THEN NoCompartment
    ELSE Universe[metabolites(r)[1].met].compartment

\* the shared tail of the three fixers: adjust the species by -imbalance
adjust_species(r, met, imbalance) ==
    IF met \in Keys(metabolites(r))
    THEN subtract_in_view(r, met, imbalance)
    ELSE add_metabolites(r, <<[met |-> met, coef |-> -imbalance]>>)

\* ModelBalancer.fix_proton_balance: the reaction afterwards and the result
fix_proton_balance(mets, r, element_balance) ==
    LET h_imbalance == Get(element_balance, H)
        proton_met == find_species(mets, "cpd00067", first_non_proton_compartment(r))
    IN  IF Abs(h_imbalance) < TOL THEN [rxn |-> r, ok |-> TRUE, met |-> NoMet]
        ELSE IF proton_met # NoMet
             THEN [rxn |-> adjust_species(r, proton_met, h_imbalance),
                   ok |-> TRUE, met |-> proton_met]
             ELSE [rxn |-> r, ok |-> FALSE, met |-> NoMet]

\* ModelBalancer.fix_water_balance
fix_water_balance(mets, r, element_balance) ==
    LET o_imbalance == Get(element_balance, O)
        h_imbalance == Get(element_balance, H)
        water_met == find_species(mets, "cpd00001", first_compartment(r))
    IN  IF Abs(o_imbalance) < TOL THEN [rxn |-> r, ok |-> TRUE, met |-> NoMet]
        ELSE IF Abs(h_imbalance - 2 * o_imbalance) > WATER_TOL
             THEN [rxn |-> r, ok |-> FALSE, met |-> NoMet]
             ELSE IF water_met # NoMet
                  THEN [rxn |-> adjust_species(r, water_met, o_imbalance),
                        ok |-> TRUE, met |-> water_met]
                  ELSE [rxn |-> r, ok |-> FALSE, met |-> NoMet]

\* the last branch of balance_reaction_mass, "Revert changes if not fixed":
\* clear(), add_metabolites(original_metabolites), return False
revert_changes_returns_true(r, original_metabolites, p, w, eb) ==
    [rxn |-> add_metabolites(clear_view(r), original_metabolites),
     ret |-> TRUE, fixed |-> FALSE,
     proton_step |-> p.ok, water_step |-> w.ok,
     proton_met |-> p.met, water_met |-> w.met, residual |-> eb,
     before_water |-> p.rxn.mets]

revert_changes(r, original_metabolites, p, w, eb) ==
    [rxn |-> add_metabolites(clear_view(r), original_metabolites),
     ret |-> FALSE, fixed |-> FALSE,
     proton_step |-> p.ok, water_step |-> w.ok,
     proton_met |-> p.met, water_met |-> w.met, residual |-> eb,
     before_water |-> p.rxn.mets]

\* a fixer that was not called
no_fix(r) == [rxn |-> r, ok |-> FALSE, met |-> NoMet]

\* "Try to fix hydrogen balance with protons"
proton_fix(mets, r, eb) ==
    IF H \in DOMAIN eb /\ Abs(eb[H]) > TOL
    THEN fix_proton_balance(mets, r, eb) ELSE no_fix(r)

\* "Try to fix oxygen balance with water"
water_fix(mets, r, eb) ==
    IF O \in DOMAIN eb /\ Abs(eb[O]) > TOL
    THEN fix_water_balance(mets, r, eb) ELSE no_fix(r)

\* "Recalculate balance": only when the fixer reported success
recalculate(f, eb) == IF f.ok THEN calculate_mass_balance(f.rxn) ELSE eb

\* an attempt that returns True at once: exempt or already balanced
skip_attempt(r, residual) ==
    [rxn |-> r, ret |-> TRUE, fixed |-> FALSE,
     proton_step |-> FALSE, water_step |-> FALSE,
     proton_met |-> NoMet, water_met |-> NoMet, residual |-> residual,
     before_water |-> r.mets]

\* "Check if fixed": r is the reaction on entry, p and w the outcomes of the
\* two fixers, eb the last element balance computed
check_if_fixed(r, p, w, eb) ==
    IF max_imbalance(eb) < TOL
    THEN [rxn |-> w.rxn, ret |-> TRUE, fixed |-> TRUE,
          proton_step |-> p.ok, water_step |-> w.ok,
          proton_met |-> p.met, water_met |-> w.met, residual |-> eb,
          before_water |-> p.rxn.mets]
    ELSE revert_changes(w.rxn, metabolites(r), p, w, eb)

\* balance_reaction_mass after the water step
after_water(r, p, w, eb) == check_if_fixed(r, p, w, recalculate(w, eb))

\* balance_reaction_mass after the proton step
after_proton(mets, r, p, eb) ==
    after_water(r, p, water_fix(mets, p.rxn, recalculate(p, eb)), recalculate(p, eb))

\* ModelBalancer.balance_reaction_mass: the reaction afterwards, the value
\* returned, whether the id was appended to fixed_mass, which of the two
\* fixers ran and reported success, the last element balance computed and
\* the mapping the water step was given
balance_reaction_mass(mets, r) ==
    LET element_balance == calculate_mass_balance(r)
    IN  IF is_exchange_reaction(r) \/ is_transport_reaction(r)
        THEN skip_attempt(r, element_balance)
        ELSE IF max_imbalance(element_balance) < TOL
             THEN skip_attempt(r, element_balance)
             ELSE after_proton(mets, r, proton_fix(mets, r, element_balance),
                               element_balance)

\* ModelBalancer.balance_reaction_charge
balance_reaction_charge(mets, r) ==
    LET charge_balance == calculate_charge_balance(r)
        proton_met == find_species(mets, "cpd00067", first_compartment(r))
    IN  IF is_exchange_reaction(r) THEN skip_attempt(r, charge_balance)
        ELSE IF Abs(charge_balance) < TOL THEN skip_attempt(r, charge_balance)
        ELSE IF proton_met # NoMet
             THEN [rxn |-> adjust_species(r, proton_met, charge_balance),
                   ret |-> TRUE, fixed |-> TRUE,
                   proton_step |-> TRUE, water_step |-> FALSE,
                   proton_met |-> proton_met, water_met |-> NoMet,
                   residual |-> charge_balance, before_water |-> r.mets]
             ELSE [skip_attempt(r, charge_balance) EXCEPT !.ret = FALSE]

\* get_by_id returning another reaction than the one asked for
get_by_id_other(rs, id) == CHOOSE i \in 1..Len(rs) : rs[i].id # id

\* get_by_id returning the first reaction of the list
get_by_id_first(rs, id) == CHOOSE i \in 1..Len(rs) : \A j \in 1..Len(rs) : i <= j

\* self.model.reactions.get_by_id: the position of the reaction
get_by_id(rs, id) == CHOOSE i \in 1..Len(rs) : rs[i].id = id

\* ModelBalancer.analyze_balance: the two lists built by the loop
RECURSIVE analyze_mass(_)
analyze_mass(rs) ==
    IF rs = <<>> THEN <<>>
    ELSE LET eb == calculate_mass_balance(Head(rs))
         IN  (IF /\ DOMAIN eb # {}
                 /\ UNKNOWN \notin DOMAIN eb
                 /\ max_imbalance(eb) > TOL
              THEN <<[id |-> Head(rs).id, imbalance |-> eb]>>
              ELSE <<>>) \o analyze_mass(Tail(rs))

\* analyze_balance listing every reaction as charge-imbalanced
RECURSIVE analyze_charge_lists_balanced(_)
analyze_charge_lists_balanced(rs) ==
    IF rs = <<>> THEN <<>>
    ELSE LET cb == calculate_charge_balance(Head(rs))
         IN  (IF Abs(cb) >= 0
              THEN <<[id |-> Head(rs).id, imbalance |-> cb]>>
              ELSE <<>>) \o analyze_charge_lists_balanced(Tail(rs))

RECURSIVE analyze_charge(_)
analyze_charge(rs) ==
    IF rs = <<>> THEN <<>>
    ELSE LET cb == calculate_charge_balance(Head(rs))
         IN  (IF Abs(cb) > TOL
              THEN <<[id |-> Head(rs).id, imbalance |-> cb]>>
              ELSE <<>>) \o analyze_charge(Tail(rs))

----------------------------------------------------------------------------
(* balance_reactions.py *)

\* one of the two loops of analyze_reaction_balance, over reaction.reactants
\* or reaction.products: the element counts, the charge and the metabolites
\* without formula of that side
RECURSIVE SideLoop(_, _)
SideLoop(d, acc) ==
    IF d = <<>> THEN acc
    ELSE LET m == Head(d).met
             coefficient == Head(d).coef
             formula == Universe[m].formula
             elements == parse_formula(formula)
             charge == get_charge_from_formula(formula)
             RECURSIVE AddElements(_, _)
             AddElements(es, eb) ==
                 IF es = {} THEN eb
                 ELSE LET el == CHOOSE x \in es : TRUE
                      IN  AddElements(es \ {el},
                              DictAdd(eb, el, Abs(coefficient) * elements[el]))
         IN  IF formula = <<>>
             THEN SideLoop(Tail(d), [acc EXCEPT !.missing = Append(@, m)])
             ELSE SideLoop(Tail(d),
                     [acc EXCEPT !.elements = AddElements(DOMAIN elements, @),
                                 !.charge = @ + Abs(coefficient) * charge])

\* reaction.reactants and reaction.products
reactants(r) == SelectSeq(r.mets, LAMBDA e : e.coef < 0)
products(r) == SelectSeq(r.mets, LAMBDA e : e.coef >= 0)

\* balance_reactions.analyze_reaction_balance (an imbalance beyond 1e-6 is
\* any non-zero number of hundredths)
analyze_reaction_balance(r) ==
    LET empty == [elements |-> EmptyDict, charge |-> 0, missing |-> <<>>]
        re == SideLoop(reactants(r), empty)
        pr == SideLoop(products(r), empty)
        all_elements == DOMAIN re.elements \cup DOMAIN pr.elements
        imbalance == [el \in all_elements |-> Get(re.elements, el) - Get(pr.elements, el)]
        imbalanced == {el \in all_elements : imbalance[el] # 0}
        element_imbalances == [el \in imbalanced |-> imbalance[el]]
        charge_imbalance == re.charge - pr.charge
    IN  [missing_formulas |-> re.missing \o pr.missing,
         element_imbalances |-> element_imbalances,
         charge_imbalance |-> charge_imbalance,
         is_mass_balanced |-> imbalanced = {},
         is_charge_balanced |-> charge_imbalance = 0,
         is_balanced |-> imbalanced = {} /\ charge_imbalance = 0]

----------------------------------------------------------------------------
(* The standalone fixers: fix_proton_balance.py, fix_hydrogen_balance.py   *)
(* and fix_stoichiometric_issues.py.  Their parse_formula is the one of    *)
(* balance_reactions.py, character for character.  No metabolite of the    *)
(* models below carries a name, so the name tests of the two finders fail. *)

\* one of the two loops of analyze_h_o_balance, over reaction.reactants or
\* reaction.products: the H and O counts and the metabolites without formula
RECURSIVE HOLoop(_, _)
HOLoop(d, acc) ==
    IF d = <<>> THEN acc
    ELSE LET m == Head(d).met
             coefficient == Head(d).coef
             formula == Universe[m].formula
             elements == parse_formula(formula)
         IN  IF formula = <<>>
             THEN HOLoop(Tail(d), [acc EXCEPT !.missing = Append(@, m)])
             ELSE HOLoop(Tail(d),
                     [acc EXCEPT !.h = @ + Abs(coefficient) * Get(elements, H),
                                 !.o = @ + Abs(coefficient) * Get(elements, O)])

EmptySide == [h |-> 0, o |-> 0, missing |-> <<>>]

\* fix_hydrogen_balance.analyze_h_o_balance
analyze_h_o_balance(r) ==
    LET re == HOLoop(reactants(r), EmptySide)
        pr == HOLoop(products(r), EmptySide)
        h_imbalance == re.h - pr.h
        o_imbalance == re.o - pr.o
    IN  [h_imbalance |-> h_imbalance,
         o_imbalance |-> o_imbalance,
         missing_formulas |-> re.missing \o pr.missing,
         can_fix_with_water |-> h_imbalance = 2 * o_imbalance /\ Abs(h_imbalance) > 0,
         water_molecules_needed |->
             IF h_imbalance = 2 * o_imbalance THEN o_imbalance ELSE 0]

\* fix_proton_balance.analyze_h_balance: the same two loops, counting H only
\* (3 protons are 300 hundredths)
analyze_h_balance(r) ==
    LET re == HOLoop(reactants(r), EmptySide)
        pr == HOLoop(products(r), EmptySide)
        h_imbalance == re.h - pr.h
    IN  [h_imbalance |-> h_imbalance,
         missing_formulas |-> re.missing \o pr.missing,
         can_fix_with_proton |-> Abs(h_imbalance) > 0 /\ Abs(h_imbalance) <= 3 * 100,
         protons_needed |-> h_imbalance]

\* the compartment suffixes of the direct id match, in the order tried
direct_compartments == <<"c0", "d0", "m0", "p0", "e0", "x0", "v0">>

\* proton_id + compartment for every proton_id and compartment, in the order
\* tried; an identifier is split at its first '_'
proton_full_ids ==
    [i \in 1..7 |-> <<"h", direct_compartments[i]>>]
 \o [i \in 1..7 |-> <<"cpd00067", direct_compartments[i]>>]
 \o [i \in 1..7 |-> <<"H", direct_compartments[i]>>]
 \o [i \in 1..7 |-> <<"proton", direct_compartments[i]>>]
 \o <<<<"h", "plus_c0">>, <<"h", "plus_d0">>, <<"h", "plus_m0">>,
      <<"h", "plus_p0">>, <<"h", "plus_e0">>, <<"h", "plus_x0">>,
      <<"h", "plus_v0">>>>

\* water_id + compartment, in the order tried
water_full_ids ==
    [i \in 1..7 |-> <<"h2o", direct_compartments[i]>>]
 \o [i \in 1..7 |-> <<"cpd00001", direct_compartments[i]>>]
 \o [i \in 1..7 |-> <<"H2O", direct_compartments[i]>>]
 \o [i \in 1..7 |-> <<"water", direct_compartments[i]>>]

\* model.metabolites.get_by_id(full_id); NoMet for KeyError
metabolite_by_id(mets, full_id) ==
    LET i == FirstIndex({j \in 1..Len(mets) : Universe[mets[j]].id = full_id})
    IN  IF i = 0 THEN NoMet ELSE mets[i]

\* re.match(r'.*word.*', id, re.IGNORECASE) for a word that is a whole part
\* of the identifier
id_contains(id, words) == id[1] \in words \/ id[2] \in words

\* find_proton_metabolite: "Direct ID match"
proton_direct(mets) ==
    LET full_ids == proton_full_ids
        i == FirstIndex({j \in 1..Len(full_ids) :
                LET candidate == metabolite_by_id(mets, full_ids[j])
                IN  /\ candidate # NoMet
                    /\ Universe[candidate].formula \in {<<"H">>, <<"H", "+">>}})
    IN  IF i = 0 THEN NoMet ELSE metabolite_by_id(mets, full_ids[i])

\* find_proton_metabolite: "Pattern match in existing metabolites"
proton_pattern(mets) ==
    LET i == FirstIndex({j \in 1..Len(mets) :
                \/ Universe[mets[j]].formula
                      \in {<<"H">>, <<"H", "+">>, <<"H", "1">>}
                \/ id_contains(Universe[mets[j]].id, {"cpd00067", "CPD00067"})
                \/ Universe[mets[j]].id[1] \in {"h", "H"}
                \/ id_contains(Universe[mets[j]].id, {"proton", "PROTON", "Proton"})})
    IN  IF i = 0 THEN NoMet ELSE mets[i]

\* fix_proton_balance.find_proton_metabolite
find_proton_metabolite(mets) ==
    LET direct == proton_direct(mets)
    IN  IF direct # NoMet THEN direct ELSE proton_pattern(mets)

\* find_water_metabolite: "Direct ID match" (the formula is not looked at)
water_direct(mets) ==
    LET full_ids == water_full_ids
        i == FirstIndex({j \in 1..Len(full_ids) :
                metabolite_by_id(mets, full_ids[j]) # NoMet})
    IN  IF i = 0 THEN NoMet ELSE metabolite_by_id(mets, full_ids[i])

\* find_water_metabolite: "Pattern match in existing metabolites"
water_pattern(mets) ==
    LET i == FirstIndex({j \in 1..Len(mets) :
                \/ Universe[mets[j]].formula = <<"H", "2", "O">>
                \/ id_contains(Universe[mets[j]].id, {"h2o", "H2O", "h2O", "H2o"})
                \/ id_contains(Universe[mets[j]].id, {"water", "WATER", "Water"})
                \/ id_contains(Universe[mets[j]].id, {"cpd00001", "CPD00001"})})
    IN  IF i = 0 THEN NoMet ELSE mets[i]

\* fix_hydrogen_balance.find_water_metabolite
find_water_metabolite(mets) ==
    LET direct == water_direct(mets)
    IN  IF direct # NoMet THEN direct ELSE water_pattern(mets)

\* fix_proton_balance's loop body without the dry_run test
fix_proton_step_ignores_dry_run(r, proton_met, dry) ==
    LET balance == analyze_h_balance(r)
        protons_needed == balance.protons_needed
    IN  IF balance.missing_formulas # <<>> THEN [rxn |-> r, fixed |-> FALSE]
        ELSE IF balance.can_fix_with_proton /\ Abs(protons_needed) > 0
             THEN [rxn |-> IF protons_needed > 0
                           THEN add_metabolites(r,
                                   <<[met |-> proton_met,
                                      coef |-> -Abs(protons_needed)]>>)
                           ELSE add_metabolites(r,
                                   <<[met |-> proton_met,
                                      coef |-> Abs(protons_needed)]>>),
                   fixed |-> TRUE]
             ELSE [rxn |-> r, fixed |-> FALSE]

\* the body of the loop of fix_proton_balance for one reaction: the reaction
\* afterwards and whether fixes_made was incremented
fix_proton_step(r, proton_met, dry) ==
    LET balance == analyze_h_balance(r)
        protons_needed == balance.protons_needed
    IN  IF balance.missing_formulas # <<>> THEN [rxn |-> r, fixed |-> FALSE]
        ELSE IF balance.can_fix_with_proton /\ Abs(protons_needed) > 0
             THEN [rxn |-> IF dry THEN r
                           ELSE IF protons_needed > 0
                                THEN add_metabolites(r,
                                        <<[met |-> proton_met,
                                           coef |-> -Abs(protons_needed)]>>)
                                ELSE add_metabolites(r,
                                        <<[met |-> proton_met,
                                           coef |-> Abs(protons_needed)]>>),
                   fixed |-> TRUE]
             ELSE [rxn |-> r, fixed |-> FALSE]

\* the body of the loop of fix_hydrogen_balance_with_water for one reaction
fix_water_step(r, water_met, dry) ==
    LET balance == analyze_h_o_balance(r)
        water_needed == balance.water_molecules_needed
    IN  IF balance.missing_formulas # <<>> THEN [rxn |-> r, fixed |-> FALSE]
        ELSE IF balance.can_fix_with_water /\ Abs(water_needed) > 0
             THEN [rxn |-> IF dry THEN r
                           ELSE IF water_needed > 0
                                THEN add_metabolites(r,
                                        <<[met |-> water_met,
                                           coef |-> -Abs(water_needed)]>>)
                                ELSE add_metabolites(r,
                                        <<[met |-> water_met,
                                           coef |-> Abs(water_needed)]>>),
                   fixed |-> TRUE]
             ELSE [rxn |-> r, fixed |-> FALSE]

\* Reaction.reversibility and Reaction.build_reaction_string: the metabolites
\* are written in the order of their ids, so the string is determined by the
\* two sides as sets and by the arrow
build_reaction_string(r) ==
    LET reversibility == r.lower_bound < 0 /\ 0 < r.upper_bound
    IN  [reactant_bits |-> {<<e.met, -e.coef>> : e \in {x \in Range(r.mets) : x.coef < 0}},
         product_bits |-> {<<e.met, e.coef>> : e \in {x \in Range(r.mets) : x.coef >= 0}},
         arrow |-> IF reversibility THEN "<=>"
                   ELSE IF r.lower_bound < 0 /\ r.upper_bound <= 0
                        THEN "<--" ELSE "-->"]

\* fix_common_issues, step 1: the positions of the reactions whose string an
\* earlier reaction already has
duplicates(rs) ==
    {i \in 1..Len(rs) :
        \E j \in 1..(i - 1) : build_reaction_string(rs[j]) = build_reaction_string(rs[i])}

\* model.remove_reactions(duplicates), done only without dry_run
remove_duplicates(rs, dry) ==
    IF duplicates(rs) # {} /\ ~dry
    THEN LET keep == {i \in 1..Len(rs) : i \notin duplicates(rs)}
             RECURSIVE Kept(_)
             Kept(i) == IF i > Len(rs) THEN <<>>
                        ELSE (IF i \in keep THEN <<rs[i]>> ELSE <<>>) \o Kept(i + 1)
         IN  Kept(1)
    ELSE rs

\* fix_common_issues, step 2 for one reaction
fix_reversibility(r, dry) ==
    IF /\ r.lower_bound = 0 /\ r.upper_bound > 0
       /\ r.id[1] \notin {"EX", "DM", "SK"}
       /\ ~dry
    THEN [r EXCEPT !.lower_bound = -1000] ELSE r

\* fix_common_issues, step 3 for one reaction
fix_transport(r, dry) ==
    IF /\ Cardinality({Universe[m].compartment : m \in Keys(r.mets)}) > 1
       /\ r.lower_bound = 0 /\ r.upper_bound = 1000
       /\ ~dry
    THEN [r EXCEPT !.lower_bound = -1000] ELSE r

\* fix_common_issues: the reactions afterwards and the value returned
fix_common_issues(rs, dry) ==
    LET rs1 == remove_duplicates(rs, dry)
        rs2 == [i \in 1..Len(rs1) |-> fix_reversibility(rs1[i], dry)]
        rs3 == [i \in 1..Len(rs2) |-> fix_transport(rs2[i], dry)]
        changed(a, b) == Cardinality({i \in 1..Len(a) : a[i] # b[i]})
    IN  [rxns |-> rs3,
         fixes_applied |-> (Len(rs) - Len(rs1)) + changed(rs1, rs2) + changed(rs2, rs3)]

----------------------------------------------------------------------------
(* The models the run starts from *)

\* the coefficients of a generated reaction: 1.0 consumed or produced
CoefValues == {-100, 100}

BaseMetabolites == <<MetA, MetB, MetD, MetX, MetE>>

\* the proton of compartment c: absent, named by its canonical id, or
\* named h_c; the water of compartment c: absent or present
ProtonChoices == {<<>>, <<MetProton>>, <<MetH>>}
WaterChoices == {<<>>, <<MetWater>>}

\* the ordered dict with keys k[1], ..., k[n] and values c[1], ..., c[n]
MetDict(k, c) == [i \in DOMAIN k |-> [met |-> k[i], coef |-> c[i]]]

\* no key twice
Distinct(k) == \A i, j \in DOMAIN k : i # j => k[i] # k[j]

\* the second reaction of the model: a reaction short of one H that a proton
\* balances, a boundary reaction by its id, or a reaction balanced in mass
\* and charge (CH+ -> C + H+)
Companions == {
    [id |-> <<"rxn", "00002">>,
     mets |-> <<[met |-> MetB, coef |-> -100], [met |-> MetA, coef |-> 100]>>],
    [id |-> <<"EX", "00002">>,
     mets |-> <<[met |-> MetA, coef |-> -100], [met |-> MetD, coef |-> 100]>>],
    [id |-> <<"rxn", "00003">>,
     mets |-> <<[met |-> MetB, coef |-> -100], [met |-> MetA, coef |-> 100],
                [met |-> MetProton, coef |-> 100]>>] }

EmptyReport ==
    [total_reactions |-> 0, mass_imbalanced |-> <<>>, charge_imbalanced |-> <<>>,
     fixed_mass |-> <<>>, fixed_charge |-> <<>>, unfixable |-> <<>>,
     summary |-> <<>>]

EmptyResults ==
    [total_reactions |-> 0, reactions_with_missing_formulas |-> 0,
     mass_imbalanced_reactions |-> 0, charge_imbalanced_reactions |-> 0,
     fully_balanced_reactions |-> 0, reaction_details |-> <<>>]

\* no parse_formula call is modelled in this run
NoInput == [tokens |-> <<>>, text |-> <<>>, suffix |-> <<>>]
NotParsed == [impl |-> "None", plain |-> EmptyDict, suffixed |-> EmptyDict]

\* ModelBalancer.__init__ on a loaded model: the five base metabolites, an
\* optional proton and an optional water; a first reaction that is any
\* ordered dict of 1..MaxMets distinct metabolites of the model, and a
\* companion made of metabolites of the model
Init ==
    /\ \E p \in ProtonChoices, w \in WaterChoices :
          model_metabolites = BaseMetabolites \o p \o w
    /\ \E n \in 1..MaxMets :
          \E k \in [1..n -> Range(model_metabolites)] :
             /\ Distinct(k)
             /\ \E c \in [1..n -> CoefValues], companion \in Companions :
                   /\ Keys(companion.mets) \subseteq Range(model_metabolites)
                   /\ reactions = <<[id |-> <<"rxn", "00001">>, mets |-> MetDict(k, c)],
                                    companion>>
    /\ input_reactions = reactions
    /\ balance_report = [EmptyReport EXCEPT !.total_reactions = Len(reactions)]
    /\ pc = "analyze"
    /\ mi = 1
    /\ ci = 1
    /\ calls = <<>>
    /\ ri = 1
    /\ results = [EmptyResults EXCEPT !.total_reactions = Len(reactions)]
    /\ dry_run = FALSE
    /\ fixes_made = 0
    /\ formula_input = NoInput
    /\ parsed = NotParsed
    /\ runs = 0
    /\ ServicesIdle

----------------------------------------------------------------------------
(* run_balancing *)

\* Phase 1: analyze_balance
AnalyzeBalance ==
    /\ pc = "analyze"
    /\ balance_report' =
          [balance_report EXCEPT !.mass_imbalanced = analyze_mass(reactions),
                                 !.charge_imbalanced = analyze_charge(reactions)]
    /\ pc' = "fix"
    /\ UNCHANGED <<model_metabolites, reactions, input_reactions, mi, ci, calls,
                   ri, results,
                   dry_run, fixes_made,
                   formula_input, parsed, runs, service_vars>>

CallRecord(fn, r, out) ==
    [fn |-> fn, id |-> r.id, entry |-> r.mets, exit |-> out.rxn.mets,
     ret |-> out.ret, fixed |-> out.fixed,
     proton_step |-> out.proton_step, water_step |-> out.water_step,
     proton_met |-> out.proton_met, water_met |-> out.water_met,
     residual |-> out.residual, before_water |-> out.before_water]

\* Phase 2, first loop of fix_all_reactions: one iteration
FixMass ==
    /\ pc = "fix"
    /\ mi <= Len(balance_report.mass_imbalanced)
    /\ LET reaction_info == balance_report.mass_imbalanced[mi]
           k == get_by_id(reactions, reaction_info.id)
           out == balance_reaction_mass(model_metabolites, reactions[k])
       IN  /\ reactions' = [reactions EXCEPT ![k] = out.rxn]
           /\ balance_report' =
                 [balance_report EXCEPT
                     !.fixed_mass = IF out.fixed THEN Append(@, reaction_info.id)
                                    ELSE @,
                     !.unfixable = IF out.ret THEN @
                                   ELSE Append(@, [id |-> reaction_info.id,
                                                   type |-> "mass",
                                                   imbalance |-> reaction_info.imbalance])]
           /\ calls' = Append(calls, CallRecord("mass", reactions[k], out))
    /\ mi' = mi + 1
    /\ UNCHANGED <<model_metabolites, input_reactions, pc, ci, ri, results,
                   dry_run, fixes_made,
                   formula_input, parsed, runs, service_vars>>

\* Phase 2, second loop of fix_all_reactions: one iteration
FixCharge ==
    /\ pc = "fix"
    /\ mi > Len(balance_report.mass_imbalanced)
    /\ ci <= Len(balance_report.charge_imbalanced)
    /\ LET reaction_info == balance_report.charge_imbalanced[ci]
           k == get_by_id(reactions, reaction_info.id)
           out == balance_reaction_charge(model_metabolites, reactions[k])
       IN  /\ reactions' = [reactions EXCEPT ![k] = out.rxn]
           /\ balance_report' =
                 [balance_report EXCEPT
                     !.fixed_charge = IF out.fixed THEN Append(@, reaction_info.id)
                                      ELSE @,
                     !.unfixable = IF out.ret THEN @
                                   ELSE Append(@, [id |-> reaction_info.id,
                                                   type |-> "charge",
                                                   imbalance |-> reaction_info.imbalance])]
           /\ calls' = Append(calls, CallRecord("charge", reactions[k], out))
    /\ ci' = ci + 1
    /\ UNCHANGED <<model_metabolites, input_reactions, pc, mi, ri, results,
                   dry_run, fixes_made,
                   formula_input, parsed, runs, service_vars>>

\* Phase 3: generate_summary (the two rates are kept as numerator and
\* denominator)
GenerateSummary ==
    /\ pc = "fix"
    /\ mi > Len(balance_report.mass_imbalanced)
    /\ ci > Len(balance_report.charge_imbalanced)
    /\ balance_report' =
          [balance_report EXCEPT !.summary =
             <<[total_reactions |-> balance_report.total_reactions,
                mass_imbalanced_initial |-> Len(balance_report.mass_imbalanced),
                charge_imbalanced_initial |-> Len(balance_report.charge_imbalanced),
                mass_fixed |-> Len(balance_report.fixed_mass),
                charge_fixed |-> Len(balance_report.fixed_charge),
                unfixable |-> Len(balance_report.unfixable),
                mass_balance_rate |->
                    <<balance_report.total_reactions
                        - Len(balance_report.mass_imbalanced)
                        + Len(balance_report.fixed_mass),
                      balance_report.total_reactions>>,
                charge_balance_rate |->
                    <<balance_report.total_reactions
                        - Len(balance_report.charge_imbalanced)
                        + Len(balance_report.fixed_charge),
                      balance_report.total_reactions>>]>>]
    /\ pc' = "done"
    /\ UNCHANGED <<model_metabolites, reactions, input_reactions, mi, ci, calls,
                   ri, results,
                   dry_run, fixes_made,
                   formula_input, parsed, runs, service_vars>>

----------------------------------------------------------------------------
(* balance_reactions.analyze_model_balance: one iteration of its loop *)

AnalyzeReaction ==
    /\ ri <= Len(reactions)
    /\ LET reaction == reactions[ri]
           balance == analyze_reaction_balance(reaction)
       IN  results' =
             [results EXCEPT
                !.reaction_details = Append(@, [id |-> reaction.id, balance |-> balance]),
                !.reactions_with_missing_formulas =
                    IF balance.missing_formulas # <<>> THEN @ + 1 ELSE @,
                !.mass_imbalanced_reactions =
                    IF ~balance.is_mass_balanced THEN @ + 1 ELSE @,
                !.charge_imbalanced_reactions =
                    IF ~balance.is_charge_balanced THEN @ + 1 ELSE @,
                !.fully_balanced_reactions =
                    IF balance.is_balanced THEN @ + 1 ELSE @]
    /\ ri' = ri + 1
    /\ UNCHANGED <<model_metabolites, reactions, input_reactions, balance_report,
                   pc, mi, ci, calls,
                   dry_run, fixes_made,
                   formula_input, parsed, runs, service_vars>>

NextAnalysis == AnalyzeReaction

SpecAnalysis == Init /\ [][NextAnalysis]_vars

----------------------------------------------------------------------------
(* The standalone fixers, each a program of its own run on a loaded model  *)

\* largest number of metabolites of a reaction given to a standalone fixer
MaxFixerMets == 2

FixerBaseMetabolites == <<MetA, MetB, MetD, MetX, MetE, MetF>>

FixerProtonChoices == {<<>>, <<MetProton>>, <<MetH>>, <<MetH0>>}

Scripts == {"fix_proton_balance", "fix_hydrogen_balance", "fix_stoichiometric_issues"}

\* the bounds of a generated reaction: irreversible or reversible
BoundValues == {<<0, 1000>>, <<-1000, 1000>>}

\* k picks metabolites in the order of the model's list
Increasing(k) == \A i, j \in DOMAIN k : i < j => k[i] < k[j]

\* the second reaction: a copy of the first under another id, or a boundary
\* reaction by its id that crosses compartments
FixerCompanions(first) ==
    { [first EXCEPT !.id = <<"rxn", "00002">>],
      [id |-> <<"EX", "00002">>,
       mets |-> <<[met |-> MetA, coef |-> -100], [met |-> MetE, coef |-> 100]>>,
       lower_bound |-> 0, upper_bound |-> 1000] }

\* main() of a standalone fixer after read_sbml_model: the script, the flag,
\* and a model of two reactions
InitFixers ==
    /\ \E p \in FixerProtonChoices, w \in WaterChoices :
          model_metabolites = FixerBaseMetabolites \o p \o w
    /\ \E n \in 1..MaxFixerMets :
          \E k \in [1..n -> 1..Len(model_metabolites)] :
             /\ Increasing(k)
             /\ \E c \in [1..n -> CoefValues], b \in BoundValues :
                   LET first == [id |-> <<"rxn", "00001">>,
                                 mets |-> MetDict([i \in 1..n |-> model_metabolites[k[i]]], c),
                                 lower_bound |-> b[1], upper_bound |-> b[2]]
                   IN  \E companion \in FixerCompanions(first) :
                          reactions = <<first, companion>>
    /\ input_reactions = reactions
    /\ balance_report = EmptyReport
    /\ pc \in Scripts
    /\ mi = 1
    /\ ci = 1
    /\ calls = <<>>
    /\ ri = 1
    /\ results = EmptyResults
    /\ dry_run \in BOOLEAN
    /\ fixes_made = 0
    /\ formula_input = NoInput
    /\ parsed = NotParsed
    /\ runs = 0
    /\ ServicesIdle

\* the record kept of one iteration of a fixer's loop
FixerCall(fn, r, out, met) ==
    [fn |-> fn, id |-> r.id, entry |-> r.mets, exit |-> out.rxn.mets,
     ret |-> out.fixed, fixed |-> out.fixed,
     proton_step |-> fn = "fix_proton_balance" /\ out.fixed,
     water_step |-> fn = "fix_hydrogen_balance" /\ out.fixed,
     proton_met |-> IF fn = "fix_proton_balance" THEN met ELSE NoMet,
     water_met |-> IF fn = "fix_hydrogen_balance" THEN met ELSE NoMet,
     residual |-> EmptyDict, before_water |-> r.mets]

\* fix_proton_balance: one iteration of its loop
FixProtonBalance ==
    /\ pc = "fix_proton_balance"
    /\ ri <= Len(reactions)
    /\ LET proton_met == find_proton_metabolite(model_metabolites)
           out == fix_proton_step(reactions[ri], proton_met, dry_run)
       IN  /\ proton_met # NoMet
           /\ reactions' = [reactions EXCEPT ![ri] = out.rxn]
           /\ fixes_made' = IF out.fixed THEN fixes_made + 1 ELSE fixes_made
           /\ calls' = Append(calls,
                         FixerCall("fix_proton_balance", reactions[ri], out, proton_met))
    /\ ri' = ri + 1
    /\ UNCHANGED <<model_metabolites, input_reactions, balance_report, pc, mi, ci,
                   results, dry_run,
                   formula_input, parsed, runs, service_vars>>

\* fix_proton_balance: `return 0` without a proton, `return fixes_made` after
\* the loop
FixProtonBalanceReturn ==
    /\ pc = "fix_proton_balance"
    /\ \/ ri > Len(reactions)
       \/ find_proton_metabolite(model_metabolites) = NoMet
    /\ pc' = "done"
    /\ UNCHANGED <<model_metabolites, reactions, input_reactions, balance_report,
                   mi, ci, calls, ri, results, dry_run, fixes_made,
                   formula_input, parsed, runs, service_vars>>

\* fix_hydrogen_balance_with_water: one iteration of its loop
FixHydrogenBalanceWithWater ==
    /\ pc = "fix_hydrogen_balance"
    /\ ri <= Len(reactions)
    /\ LET water_met == find_water_metabolite(model_metabolites)
           out == fix_water_step(reactions[ri], water_met, dry_run)
       IN  /\ water_met # NoMet
           /\ reactions' = [reactions EXCEPT ![ri] = out.rxn]
           /\ fixes_made' = IF out.fixed THEN fixes_made + 1 ELSE fixes_made
           /\ calls' = Append(calls,
                         FixerCall("fix_hydrogen_balance", reactions[ri], out, water_met))
    /\ ri' = ri + 1
    /\ UNCHANGED <<model_metabolites, input_reactions, balance_report, pc, mi, ci,
                   results, dry_run,
                   formula_input, parsed, runs, service_vars>>

\* fix_hydrogen_balance_with_water: `return 0` without a water species,
\* `return fixes_made` after the loop
FixHydrogenBalanceReturn ==
    /\ pc = "fix_hydrogen_balance"
    /\ \/ ri > Len(reactions)
       \/ find_water_metabolite(model_metabolites) = NoMet
    /\ pc' = "done"
    /\ UNCHANGED <<model_metabolites, reactions, input_reactions, balance_report,
                   mi, ci, calls, ri, results, dry_run, fixes_made,
                   formula_input, parsed, runs, service_vars>>

\* fix_stoichiometric_issues.fix_common_issues
FixCommonIssues ==
    /\ pc = "fix_stoichiometric_issues"
    /\ LET out == fix_common_issues(reactions, dry_run)
       IN  /\ reactions' = out.rxns
           /\ fixes_made' = out.fixes_applied
    /\ pc' = "done"
    /\ UNCHANGED <<model_metabolites, input_reactions, balance_report, mi, ci,
                   calls, ri, results, dry_run,
                   formula_input, parsed, runs, service_vars>>

NextFixers ==
    \/ FixProtonBalance
    \/ FixProtonBalanceReturn
    \/ FixHydrogenBalanceWithWater
    \/ FixHydrogenBalanceReturn
    \/ FixCommonIssues

SpecFixers == InitFixers /\ [][NextFixers]_vars

----------------------------------------------------------------------------

Next == AnalyzeBalance \/ FixMass \/ FixCharge \/ GenerateSummary

Spec == Init /\ [][Next]_vars

----------------------------------------------------------------------------
(* A single call of parse_formula.  The argument is either written as a    *)
(* sequence of element tokens or is any string over a small alphabet; the  *)
(* call is made on the argument and on the argument followed by a charge   *)
(* suffix.  <<>> is the empty string and also None: `not formula` does not *)
(* tell them apart.                                                        *)

\* largest number of element tokens of a generated formula
MaxTokens == 2

\* largest length of a generated string that is not built from tokens
MaxLen == 4

TokenElements == {<<"H">>, <<"O">>, <<"N">>, <<"C">>, <<"N", "a">>, <<"N", "o">>,
                  <<"N", "e">>}
TokenCounts == {<<>>, <<"2">>, <<"1", "2">>}
Tokens == {[element |-> e, count |-> c] : e \in TokenElements, c \in TokenCounts}

RawAlphabet == {"n", "o", "e", "N", "2", "+"}

SpecialTexts == {<<"N", "O", "N", "E">>, <<"N", "o", "n", "e">>,
                 <<"n", "u", "l", "l">>, <<"N", "U", "L", "L">>}

ChargeSuffixes == {<<>>, <<"+">>, <<"-">>, <<"-", "2">>, <<"+", "3">>}

\* the string a sequence of tokens is written as
RECURSIVE Written(_)
Written(ts) ==
    IF ts = <<>> THEN <<>>
    ELSE Head(ts).element \o Head(ts).count \o Written(Tail(ts))

InitParse ==
    /\ \E s \in ChargeSuffixes :
          \/ \E n \in 1..MaxTokens : \E ts \in [1..n -> Tokens] :
                formula_input = [tokens |-> ts, text |-> Written(ts), suffix |-> s]
          \/ \E n \in 0..MaxLen : \E t \in [1..n -> RawAlphabet] :
                formula_input = [tokens |-> <<>>, text |-> t, suffix |-> s]
          \/ \E t \in SpecialTexts :
                formula_input = [tokens |-> <<>>, text |-> t, suffix |-> s]
    /\ parsed = NotParsed
    /\ model_metabolites = <<>>
    /\ reactions = <<>>
    /\ input_reactions = <<>>
    /\ balance_report = EmptyReport
    /\ pc = "parse"
    /\ mi = 1
    /\ ci = 1
    /\ calls = <<>>
    /\ ri = 1
    /\ results = EmptyResults
    /\ dry_run = FALSE
    /\ fixes_made = 0
    /\ runs = 0
    /\ ServicesIdle

\* ModelBalancer.parse_formula(formula)
ParseFormulaModelBalancer ==
    /\ pc = "parse"
    /\ parsed' = [impl |-> "ModelBalancer.parse_formula",
                  plain |-> ModelBalancer_parse_formula(formula_input.text),
                  suffixed |-> ModelBalancer_parse_formula(
                                  formula_input.text \o formula_input.suffix)]
    /\ pc' = "done"
    /\ UNCHANGED <<model_metabolites, reactions, input_reactions, balance_report,
                   mi, ci, calls, ri, results, dry_run, fixes_made, formula_input, runs, service_vars>>

\* parse_formula(formula) of balance_reactions.py, fix_proton_balance.py and
\* fix_hydrogen_balance.py
ParseFormula ==
    /\ pc = "parse"
    /\ parsed' = [impl |-> "parse_formula",
                  plain |-> parse_formula(formula_input.text),
                  suffixed |-> parse_formula(
                                  formula_input.text \o formula_input.suffix)]
    /\ pc' = "done"
    /\ UNCHANGED <<model_metabolites, reactions, input_reactions, balance_report,
                   mi, ci, calls, ri, results, dry_run, fixes_made, formula_input, runs, service_vars>>

NextParse == ParseFormulaModelBalancer \/ ParseFormula

SpecParse == InitParse /\ [][NextParse]_vars

----------------------------------------------------------------------------
(* run_balancing on a model whose reactions stand in either order, with a  *)
(* further companion that has a coefficient of 0.05                        *)

\* largest number of metabolites of the generated reaction of such a model
MaxOrderMets == 2

\* C + 0.05 CH+ -> CH2O-: H and O differ by 2.05 and 1.0
FractionalCompanion ==
    [id |-> <<"rxn", "00004">>,
     mets |-> <<[met |-> MetA, coef |-> -100], [met |-> MetD, coef |-> 100],
                [met |-> MetB, coef |-> 5]>>]

\* model.reactions in one order or the other
Orders(first, companion) == {<<first, companion>>, <<companion, first>>}

InitAnyOrder ==
    /\ \E p \in ProtonChoices, w \in WaterChoices :
          model_metabolites = BaseMetabolites \o p \o w
    /\ \E n \in 1..MaxOrderMets :
          \E k \in [1..n -> Range(model_metabolites)] :
             /\ Distinct(k)
             /\ \E c \in [1..n -> CoefValues],
                   companion \in Companions \cup {FractionalCompanion} :
                   /\ Keys(companion.mets) \subseteq Range(model_metabolites)
                   /\ reactions \in Orders([id |-> <<"rxn", "00001">>,
                                            mets |-> MetDict(k, c)], companion)
    /\ input_reactions = reactions
    /\ balance_report = [EmptyReport EXCEPT !.total_reactions = Len(reactions)]
    /\ pc = "analyze"
    /\ mi = 1
    /\ ci = 1
    /\ calls = <<>>
    /\ ri = 1
    /\ results = [EmptyResults EXCEPT !.total_reactions = Len(reactions)]
    /\ dry_run = FALSE
    /\ fixes_made = 0
    /\ formula_input = NoInput
    /\ parsed = NotParsed
    /\ runs = 0
    /\ ServicesIdle

SpecAnyOrder == InitAnyOrder /\ [][Next]_vars

----------------------------------------------------------------------------
(* The balancer run again on the model a run has saved *)

\* how many times run_balancing is run, each on the output of the one before
MaxRuns == 2

\* save_results of the finished run wrote the model; a new ModelBalancer is
\* constructed on that file (__init__) and is about to run
LoadBalancedModel ==
    /\ pc = "done"
    /\ runs + 1 < MaxRuns
    /\ runs' = runs + 1
    /\ input_reactions' = reactions
    /\ balance_report' = [EmptyReport EXCEPT !.total_reactions = Len(reactions)]
    /\ pc' = "analyze"
    /\ mi' = 1
    /\ ci' = 1
    /\ calls' = <<>>
    /\ UNCHANGED <<model_metabolites, reactions, ri, results, dry_run, fixes_made,
                   formula_input, parsed, service_vars>>

NextRepeated == Next \/ LoadBalancedModel

SpecRepeated == Init /\ [][NextRepeated]_vars

----------------------------------------------------------------------------
(* Properties *)

Call(i) == calls[i]

\* the reaction a call was entered with
Entered(c) == [id |-> c.id, mets |-> c.entry]

Ids(list) == {list[i].id : i \in 1..Len(list)}

UnfixableIds(type) ==
    {balance_report.unfixable[i].id :
        i \in {j \in 1..Len(balance_report.unfixable) :
                  balance_report.unfixable[j].type = type}}

Exempt(r) == is_exchange_reaction(r) \/ is_transport_reaction(r)

HasMissingFormula(r) ==
    \E m \in Keys(r.mets) : get_metabolite_formula(m) = <<>>

\* C1: a balance_reaction_mass call on a non-exempt reaction that applied the
\* proton and/or the water step and still left an element imbalance of 0.01
\* or more returns False with the mapping it was entered with.
C1_RollbackRestoresMapping ==
    \A i \in 1..Len(calls) :
        ( /\ Call(i).fn = "mass"
          /\ ~Exempt(Entered(Call(i)))
          /\ Call(i).proton_step \/ Call(i).water_step
          /\ max_imbalance(Call(i).residual) >= TOL )
        => /\ Call(i).exit = Call(i).entry
           /\ Call(i).ret = FALSE

\* C2: at the end of the run every reaction listed in fixed_mass or in
\* fixed_charge has every element balance and its charge balance below 0.01.
C2_FixedReactionsAreBalanced ==
    pc = "done" =>
        \A k \in 1..Len(reactions) :
            reactions[k].id \in Range(balance_report.fixed_mass)
                                   \cup Range(balance_report.fixed_charge)
            => /\ max_imbalance(calculate_mass_balance(reactions[k])) < TOL
               /\ Abs(calculate_charge_balance(reactions[k])) < TOL

\* C3: a fix attempt (mass or charge) on a reaction that spans more than one
\* compartment, or has exactly one metabolite, leaves its mapping unchanged.
C3_ExemptReactionsUntouched ==
    \A i \in 1..Len(calls) :
        ( \/ is_transport_reaction(Entered(Call(i)))
          \/ Len(Call(i).entry) = 1 )
        => Call(i).exit = Call(i).entry

\* C4: at the end of the run every reaction in the unfixable list has the
\* mapping it had in the input model.
C4_UnfixableKeepInputMapping ==
    pc = "done" =>
        \A k \in 1..Len(reactions) :
            reactions[k].id \in Ids(balance_report.unfixable)
            => reactions[k].mets = input_reactions[k].mets

\* the reactions analyze_model_balance has analysed so far, with their results
Analysed == 1..Len(results.reaction_details)

\* C5: a reaction with a metabolite without formula is flagged indeterminate
\* as a whole and gets no mass-balanced or mass-imbalanced verdict from its
\* other metabolites: calculate_mass_balance returns only 'unknown' and
\* analyze_balance does not list it as mass-imbalanced; analyze_reaction_balance
\* names the metabolites without formula and analyze_model_balance counts the
\* reaction neither as mass-imbalanced nor as fully balanced.
C5_MissingFormulaIsIndeterminate ==
    /\ \A k \in 1..Len(reactions) :
          HasMissingFormula(reactions[k])
          => /\ DOMAIN calculate_mass_balance(reactions[k]) = {UNKNOWN}
             /\ reactions[k].id \notin Ids(balance_report.mass_imbalanced)
    /\ \A i \in Analysed :
          HasMissingFormula(reactions[i])
          => /\ results.reaction_details[i].balance.missing_formulas # <<>>
             /\ results.reaction_details[i].balance.is_mass_balanced
             /\ ~results.reaction_details[i].balance.is_balanced

\* C6: a full run leaves unchanged the mapping of every reaction that has a
\* metabolite without formula.
C6_MissingFormulaReactionUnchanged ==
    pc = "done" =>
        \A k \in 1..Len(reactions) :
            HasMissingFormula(input_reactions[k])
            => reactions[k].mets = input_reactions[k].mets

\* the compartments of a reaction's metabolites
Compartments(r) == {Universe[m].compartment : m \in Keys(r.mets)}

\* the species of formula H of the model in the compartments cs
FormulaProtons(cs) ==
    {m \in Range(model_metabolites) :
        Universe[m].formula = H /\ Universe[m].compartment \in cs}

\* the mapping d with x added to the coefficient of m, the entry created if absent
WithAdded(d, m, x) == AddOne(d, [met |-> m, coef |-> x])

\* C7: a mass fix on a non-exempt reaction whose only imbalance is H, the
\* product side short by k >= 1 atoms, with a species of formula H in its
\* compartment, adds +k to that species' coefficient and records the reaction
\* as fixed.
C7_ProtonFixAddsK ==
    \A i \in 1..Len(calls) :
        LET c == Call(i)
            eb == calculate_mass_balance(Entered(c))
        IN  ( /\ c.fn = "mass"
              /\ ~Exempt(Entered(c))
              /\ UNKNOWN \notin DOMAIN eb
              /\ H \in DOMAIN eb
              /\ eb[H] <= -100
              /\ \A el \in DOMAIN eb \ {H} : Abs(eb[el]) < TOL
              /\ FormulaProtons(Compartments(Entered(c))) # {} )
            => /\ \E p \in FormulaProtons(Compartments(Entered(c))) :
                     c.exit = WithAdded(c.entry, p, -eb[H])
               /\ c.fixed
               /\ c.id \in Range(balance_report.fixed_mass)

ReportedIds ==
    Ids(balance_report.mass_imbalanced) \cup Ids(balance_report.charge_imbalanced)
        \cup Range(balance_report.fixed_mass) \cup Range(balance_report.fixed_charge)
        \cup Ids(balance_report.unfixable)

\* a reaction with an element or charge imbalance beyond the tolerance
Imbalanced(r) ==
    \/ max_imbalance(calculate_mass_balance(r)) > TOL
    \/ Abs(calculate_charge_balance(r)) > TOL

\* C8: at the end of the run every reaction whose balance is indeterminate,
\* or that is still imbalanced, appears by id in one of the report's lists.
C8_NoReactionDropped ==
    pc = "done" =>
        \A k \in 1..Len(reactions) :
            (HasMissingFormula(reactions[k]) \/ Imbalanced(reactions[k]))
            => reactions[k].id \in ReportedIds

\* exactly one of two conditions
ExactlyOne(a, b) == (a /\ ~b) \/ (~a /\ b)

\* the ids of a report list, in order
IdSeq(list) == [i \in 1..Len(list) |-> list[i].id]

\* the calls made so far are the attempts on the listed reactions, in order
AttemptsInOrder ==
    [i \in 1..Len(calls) |-> calls[i].id]
        = SubSeq(IdSeq(balance_report.mass_imbalanced)
                    \o IdSeq(balance_report.charge_imbalanced), 1, Len(calls))

\* C9 as stated: at the end of fix_all_reactions every reaction of
\* mass_imbalanced is in exactly one of fixed_mass and unfixable (type mass),
\* every reaction of charge_imbalanced is in exactly one of fixed_charge and
\* unfixable (type charge), and every listed reaction has been attempted.
C9_EveryListedReactionResolved ==
    pc = "done" =>
        /\ \A id \in Ids(balance_report.mass_imbalanced) :
              ExactlyOne(id \in Range(balance_report.fixed_mass),
                         id \in UnfixableIds("mass"))
        /\ \A id \in Ids(balance_report.charge_imbalanced) :
              ExactlyOne(id \in Range(balance_report.fixed_charge),
                         id \in UnfixableIds("charge"))
        /\ AttemptsInOrder
        /\ Len(calls) = Len(balance_report.mass_imbalanced)
                          + Len(balance_report.charge_imbalanced)

\* C9 amended: at the end of fix_all_reactions every listed reaction has been
\* attempted, in list order, whatever the earlier attempts returned; a
\* reaction of mass_imbalanced is in exactly one of fixed_mass and unfixable
\* (type mass) unless it is exempt (exchange or transport), and then it is in
\* neither; a reaction of charge_imbalanced is in exactly one of fixed_charge
\* and unfixable (type charge) unless it is an exchange reaction or its charge
\* imbalance was below 0.01 when its attempt started, and then it is in
\* neither.
C9_EveryAttemptedReactionResolved ==
    pc = "done" =>
        /\ AttemptsInOrder
        /\ Len(calls) = Len(balance_report.mass_imbalanced)
                          + Len(balance_report.charge_imbalanced)
        /\ \A i \in 1..Len(calls) :
              LET c == Call(i)
                  fixed == IF c.fn = "mass" THEN Range(balance_report.fixed_mass)
                           ELSE Range(balance_report.fixed_charge)
                  skipped == IF c.fn = "mass" THEN Exempt(Entered(c))
                             ELSE \/ is_exchange_reaction(Entered(c))
                                  \/ Abs(calculate_charge_balance(Entered(c))) < TOL
              IN  IF skipped
                  THEN c.id \notin fixed /\ c.id \notin UnfixableIds(c.fn)
                  ELSE ExactlyOne(c.id \in fixed, c.id \in UnfixableIds(c.fn))

\* C9 witness: the run ended; a mass attempt failed, its reaction went to
\* unfixable, and the attempt after it fixed its reaction; and a listed charge
\* attempt found the charge already balanced and recorded nothing
C9_Witness ==
    /\ pc = "done"
    /\ \E i \in 1..(Len(calls) - 1) :
          /\ Call(i).fn = "mass" /\ ~Call(i).ret
          /\ Call(i).id \in UnfixableIds("mass")
          /\ Call(i + 1).fn = "mass" /\ Call(i + 1).fixed
    /\ \E i \in 1..Len(calls) :
          /\ Call(i).fn = "charge"
          /\ ~is_exchange_reaction(Entered(Call(i)))
          /\ Abs(calculate_charge_balance(Entered(Call(i)))) < TOL
          /\ Call(i).id \notin Range(balance_report.fixed_charge)
          /\ Call(i).id \notin UnfixableIds("charge")

\* C10: an attempt on a non-exempt reaction that is H-imbalanced with no
\* proton species in its dominant compartment, or O-imbalanced with no water
\* species there, or charge-imbalanced with no proton species there, returns
\* False, leaves the mapping unchanged and records the reaction as unfixable;
\* the attempts after it still take place.
C10_MissingSpeciesIsUnfixable ==
    /\ \A i \in 1..Len(calls) :
          LET c == Call(i)
              r == Entered(c)
              eb == calculate_mass_balance(r)
              no_proton ==
                  /\ H \in DOMAIN eb /\ Abs(eb[H]) > TOL
                  /\ find_species(model_metabolites, "cpd00067",
                                  first_non_proton_compartment(r)) = NoMet
              no_water ==
                  /\ O \in DOMAIN eb /\ Abs(eb[O]) > TOL
                  /\ find_species(model_metabolites, "cpd00001",
                                  first_compartment(r)) = NoMet
              no_charge_proton ==
                  /\ Abs(calculate_charge_balance(r)) >= TOL
                  /\ find_species(model_metabolites, "cpd00067",
                                  first_compartment(r)) = NoMet
          IN  ( \/ c.fn = "mass" /\ ~Exempt(r) /\ (no_proton \/ no_water)
                \/ c.fn = "charge" /\ ~is_exchange_reaction(r) /\ no_charge_proton )
              => /\ ~c.ret
                 /\ c.exit = c.entry
                 /\ c.id \in UnfixableIds(c.fn)
    /\ pc = "done" => Len(calls) = Len(balance_report.mass_imbalanced)
                                     + Len(balance_report.charge_imbalanced)

----------------------------------------------------------------------------
(* Claims C11 - C20 *)

\* the coefficient of m in the mapping d, 0 when m is absent
CoefIn(d, m) ==
    LET i == FirstIndex({j \in 1..Len(d) : d[j].met = m})
    IN  IF i = 0 THEN 0 ELSE d[i].coef

\* a proton: a species of formula H or carrying the proton's canonical id
IsProton(m) == Universe[m].formula = H \/ startswith(Universe[m].id, "cpd00067")

\* the compartment of the first metabolite of the mapping d that is not a proton
DominantCompartment(d) ==
    LET i == FirstIndex({j \in 1..Len(d) : ~IsProton(d[j].met)})
    IN  IF i = 0 THEN NoCompartment ELSE Universe[d[i].met].compartment

\* the proton and water species a call changed the coefficient of
SpeciesEdited(c) ==
    {m \in {c.proton_met, c.water_met} \ {NoMet} : CoefIn(c.exit, m) # CoefIn(c.entry, m)}

\* C11: whenever a fixer (a ModelBalancer step or a standalone fixer) inserts
\* or adjusts a proton or water species in a reaction, the species'
\* compartment is the compartment of the reaction's first non-proton
\* metabolite.
C11_InsertedSpeciesInDominantCompartment ==
    \A i \in 1..Len(calls) :
        \A m \in SpeciesEdited(Call(i)) :
            Universe[m].compartment = DominantCompartment(Call(i).entry)

\* a reaction balanced in mass (every formula known, every element at 0) and
\* in charge
IsBalanced(r) ==
    LET eb == calculate_mass_balance(r)
    IN  /\ UNKNOWN \notin DOMAIN eb
        /\ \A el \in DOMAIN eb : eb[el] = 0
        /\ calculate_charge_balance(r) = 0

InputBalanced == \A k \in 1..Len(input_reactions) : IsBalanced(input_reactions[k])

\* C12: on a model whose reactions are all balanced in mass and charge, the
\* run (analyze_balance, then fix_all_reactions) changes no reaction's
\* mapping and records no reaction as imbalanced, fixed or unfixable.
C12_BalancedModelUntouched ==
    InputBalanced =>
        /\ \A k \in 1..Len(reactions) : reactions[k].mets = input_reactions[k].mets
        /\ balance_report.mass_imbalanced = <<>>
        /\ balance_report.charge_imbalanced = <<>>
        /\ balance_report.fixed_mass = <<>>
        /\ balance_report.fixed_charge = <<>>
        /\ balance_report.unfixable = <<>>
        /\ calls = <<>>

\* a run on a balanced model that went through both phases
C12_Witness ==
    /\ pc = "done"
    /\ InputBalanced
    /\ Len(input_reactions) > 1

\* the sum of the counts of the tokens of element el, an absent count being 1
RECURSIVE TokenSum(_, _)
TokenSum(ts, el) ==
    IF ts = <<>> THEN 0
    ELSE (IF Head(ts).element = el
          THEN (IF Head(ts).count = <<>> THEN 1 ELSE ToInt(Head(ts).count))
          ELSE 0) + TokenSum(Tail(ts), el)

\* the mapping a formula written as the tokens ts stands for
TokenMapping(ts) ==
    [el \in {ts[i].element : i \in 1..Len(ts)} |-> TokenSum(ts, el)]

\* the argument was written as a sequence of element tokens and the call returned
ParsedTokens == parsed # NotParsed /\ formula_input.tokens # <<>>

\* the string reads "none" or "null" when lowercased
ReadsAsNone(text) ==
    lower(text) \in {<<"n", "o", "n", "e">>, <<"n", "u", "l", "l">>}

\* C13: for a formula written as a sequence of element tokens, every
\* parse_formula returns the mapping from each element symbol to the sum of
\* the counts of its tokens, an absent count being 1.
C13_ParsesTokenSequences ==
    ParsedTokens => parsed.plain = TokenMapping(formula_input.tokens)

\* C13 as the code has it: the same, except that the parse_formula of
\* balance_reactions.py and of the standalone fixers returns the empty
\* mapping for a formula that reads "none" or "null" when lowercased.
C13_ParsesTokenSequencesButNone ==
    ParsedTokens =>
        IF parsed.impl = "parse_formula" /\ ReadsAsNone(formula_input.text)
        THEN parsed.plain = EmptyDict
        ELSE parsed.plain = TokenMapping(formula_input.tokens)

\* a formula with a repeated element, one count absent and one of two digits
C13_Witness ==
    /\ ParsedTokens
    /\ Len(formula_input.tokens) > 1
    /\ formula_input.tokens[1].element = formula_input.tokens[2].element
    /\ formula_input.tokens[1].count = <<>>
    /\ Len(formula_input.tokens[2].count) > 1
    /\ parsed.plain = TokenMapping(formula_input.tokens)

\* C14: for a well-formed formula F and a charge suffix s, every parse_formula
\* returns for F followed by s what it returns for F.
C14_ChargeSuffixIgnored ==
    (ParsedTokens /\ formula_input.suffix # <<>>) => parsed.suffixed = parsed.plain

\* a mapping from element symbols to counts
IsElementMapping(d) ==
    \A k \in DOMAIN d :
        /\ Len(k) \in {1, 2}
        /\ k[1] \in UpperCase
        /\ Len(k) = 2 => k[2] \in LowerCase
        /\ d[k] \in Nat

\* C15: every parse_formula returns the empty mapping for an absent value,
\* for the empty string and for the string "none", and returns a mapping
\* (it does not raise) for every string.
C15_EmptyForMissingInput ==
    parsed # NotParsed =>
        /\ formula_input.text \in {<<>>, <<"n", "o", "n", "e">>}
              => parsed.plain = EmptyDict
        /\ IsElementMapping(parsed.plain)
        /\ IsElementMapping(parsed.suffixed)

\* ModelBalancer.parse_formula, which has no test for it, was given "none"
C15_Witness ==
    /\ parsed.impl = "ModelBalancer.parse_formula"
    /\ formula_input.text = <<"n", "o", "n", "e">>
    /\ parsed.plain = EmptyDict

\* the id of the reaction the next fix attempt is made on
TargetId ==
    IF mi <= Len(balance_report.mass_imbalanced)
    THEN balance_report.mass_imbalanced[mi].id
    ELSE balance_report.charge_imbalanced[ci].id

\* C16: a fix attempt on reaction r (balance_reaction_mass or
\* balance_reaction_charge) leaves unchanged the mapping of every other
\* reaction, the list of reactions and the model's metabolites.
C16_FixAttemptFrame ==
    [][ (FixMass \/ FixCharge) =>
            /\ model_metabolites' = model_metabolites
            /\ Len(reactions') = Len(reactions)
            /\ \A k \in 1..Len(reactions) :
                  /\ reactions'[k].id = reactions[k].id
                  /\ reactions[k].id # TargetId => reactions'[k] = reactions[k] ]_vars

\* an attempt changed its reaction in a model that has another one
C16_Witness ==
    /\ Len(reactions) > 1
    /\ \E i \in 1..Len(calls) : Call(i).exit # Call(i).entry

\* analyze_balance lists the reaction as mass-imbalanced, as charge-imbalanced
ListedMass(r) ==
    LET eb == calculate_mass_balance(r)
    IN  DOMAIN eb # {} /\ UNKNOWN \notin DOMAIN eb /\ max_imbalance(eb) > TOL

ListedCharge(r) == Abs(calculate_charge_balance(r)) > TOL

\* the mass attempt made on the reaction r taken alone, if it is listed
MassAlone(r) ==
    IF ListedMass(r) THEN balance_reaction_mass(model_metabolites, r)
    ELSE skip_attempt(r, EmptyDict)

\* the charge attempt that follows it, if r is listed
ChargeAlone(r) ==
    IF ListedCharge(r)
    THEN balance_reaction_charge(model_metabolites, MassAlone(r).rxn)
    ELSE skip_attempt(MassAlone(r).rxn, EmptyDict)

\* C17: the final mapping of each reaction and its membership of fixed_mass,
\* fixed_charge and unfixable are those of the attempts made on that reaction
\* taken alone, wherever the reaction stands in the model's list; so they are
\* the same for every order in which the reactions are iterated.
C17_OutcomeIndependentOfOrder ==
    pc = "done" =>
        \A k \in 1..Len(reactions) :
            LET r == input_reactions[k]
                m == MassAlone(r)
                c == ChargeAlone(r)
            IN  /\ reactions[k].mets = c.rxn.mets
                /\ r.id \in Range(balance_report.fixed_mass)
                      <=> (ListedMass(r) /\ m.fixed)
                /\ r.id \in Range(balance_report.fixed_charge)
                      <=> (ListedCharge(r) /\ c.fixed)
                /\ r.id \in UnfixableIds("mass") <=> (ListedMass(r) /\ ~m.ret)
                /\ r.id \in UnfixableIds("charge") <=> (ListedCharge(r) /\ ~c.ret)

\* a finished run on a model listing the companion first, in which both
\* reactions were attempted and one of them was changed
C17_Witness ==
    /\ pc = "done"
    /\ reactions[1].id # <<"rxn", "00001">>
    /\ \E i, j \in 1..Len(calls) : Call(i).id # Call(j).id
    /\ \E i \in 1..Len(calls) : Call(i).exit # Call(i).entry

\* the mapping d has every formula known and an element off by more than 0.01
MassImbalanced(d) ==
    LET eb == calculate_mass_balance([id |-> <<>>, mets |-> d])
    IN  UNKNOWN \notin DOMAIN eb /\ max_imbalance(eb) > TOL

\* C18: balance_reaction_charge does not edit a reaction that is
\* mass-imbalanced when the charge phase reaches it.
C18_ChargeFixOnlyWhenMassBalanced ==
    \A i \in 1..Len(calls) :
        (Call(i).fn = "charge" /\ MassImbalanced(Call(i).entry))
        => Call(i).exit = Call(i).entry

\* C19: fix_water_balance adjusts the water coefficient only when the H
\* imbalance it is given is exactly twice the O imbalance, and after the
\* adjustment the H and the O imbalance of the reaction are both zero.
C19_WaterOnlyWhenExactAndThenBalanced ==
    \A i \in 1..Len(calls) :
        (Call(i).fn = "mass" /\ Call(i).water_met # NoMet) =>
            LET before == calculate_mass_balance(
                              [id |-> Call(i).id, mets |-> Call(i).before_water])
            IN  /\ Get(before, H) = 2 * Get(before, O)
                /\ Get(Call(i).residual, H) = 0
                /\ Get(Call(i).residual, O) = 0

\* C20: with dry_run set, fix_proton_balance, fix_hydrogen_balance_with_water
\* and fix_common_issues leave every reaction's mapping, every reaction's
\* bounds and the list of reactions as they were loaded.
C20_DryRunChangesNothing ==
    dry_run => reactions = input_reactions

\* a finished dry run that counted a fix, or that found a duplicate and a
\* reaction it would have made reversible
C20_Witness ==
    /\ dry_run
    /\ pc = "done"
    /\ \/ fixes_made > 0
       \/ /\ input_reactions # <<>>
          /\ "lower_bound" \in DOMAIN input_reactions[1]
          /\ calls = <<>>
          /\ duplicates(input_reactions) # {}
          /\ input_reactions[1].lower_bound = 0

----------------------------------------------------------------------------
(* Claims C21 .. C29 *)

\* a reaction made of the mapping d, for the analysis functions
Mapped(d) == [id |-> <<>>, mets |-> d]

\* the call edited its reaction: it is a call of the standalone script fn that
\* counted a fix and was not a dry run
FixerEdited(c, fn) == c.fn = fn /\ c.fixed /\ ~dry_run

\* C24: whenever the standalone fix_proton_balance edits a reaction (every
\* formula present, H imbalance h with 0 < |h| <= 3, proton species of formula
\* H), analyze_h_balance on the edited reaction gives an H imbalance of 0.
C24_ProtonFixLeavesNoHImbalance ==
    \A i \in 1..Len(calls) :
        (/\ FixerEdited(Call(i), "fix_proton_balance")
         /\ Universe[Call(i).proton_met].formula = H)
        => analyze_h_balance(Mapped(Call(i).exit)).h_imbalance = 0

\* C25: whenever the standalone fix_hydrogen_balance_with_water edits a
\* reaction (every formula present, H imbalance twice the O imbalance and not
\* zero, water species of formula H2O), analyze_h_o_balance on the edited
\* reaction gives an H imbalance of 0 and an O imbalance of 0.
C25_WaterFixLeavesNoHOImbalance ==
    \A i \in 1..Len(calls) :
        (/\ FixerEdited(Call(i), "fix_hydrogen_balance")
         /\ parse_formula(Universe[Call(i).water_met].formula) = (H :> 2 @@ O :> 1))
        => LET after == analyze_h_o_balance(Mapped(Call(i).exit))
           IN  after.h_imbalance = 0 /\ after.o_imbalance = 0

\* the only imbalance of the mapping d is k waters, k # 0: every formula is
\* known, H is off by 2k, O by k, and every other element is at 0
WaterOnly(d) ==
    LET eb == calculate_mass_balance(Mapped(d))
    IN  /\ UNKNOWN \notin DOMAIN eb
        /\ O \in DOMAIN eb /\ H \in DOMAIN eb
        /\ eb[O] # 0
        /\ eb[H] = 2 * eb[O]
        /\ \A el \in DOMAIN eb \ {H, O} : eb[el] = 0

\* the compartments of the metabolites of d
CompartmentsOf(d) == {Universe[m].compartment : m \in Keys(d)}

\* the model has a species whose id starts with prefix in compartment comp
SpeciesIn(prefix, comp) ==
    \E m \in Range(model_metabolites) :
        startswith(Universe[m].id, prefix) /\ Universe[m].compartment = comp

\* every element of the mapping d is within 0.01 of zero
MassBalanced(d) ==
    LET eb == calculate_mass_balance(Mapped(d))
    IN  UNKNOWN \notin DOMAIN eb /\ \A el \in DOMAIN eb : Abs(eb[el]) < TOL

\* C26: a reaction that is neither exchange nor transport, whose only
\* imbalance is k waters (H off by 2k, O by k, k # 0) and whose compartment
\* holds a proton species and a water species, leaves balance_reaction_mass
\* recorded in fixed_mass with every element balanced.
C26_WaterOnlyImbalanceIsFixed ==
    \A i \in 1..Len(calls) :
        LET c == Call(i)
            r == [id |-> c.id, mets |-> c.entry]
        IN  (/\ c.fn = "mass"
             /\ ~is_exchange_reaction(r)
             /\ ~is_transport_reaction(r)
             /\ WaterOnly(c.entry)
             /\ \A comp \in CompartmentsOf(c.entry) :
                   SpeciesIn("cpd00067", comp) /\ SpeciesIn("cpd00001", comp))
            => /\ c.fixed
               /\ c.id \in Range(balance_report.fixed_mass)
               /\ MassBalanced(c.exit)

\* C27: a second run of the balancer on the model a first run produced makes
\* no edit: when the second run is done, every reaction has the mapping the
\* first run left it with.
C27_SecondRunEditsNothing ==
    (runs >= 1 /\ pc = "done") => reactions = input_reactions

----------------------------------------------------------------------------
(* scripts/processing/kegg_api_client.py  (class KEGGClient)                *)
(*                                                                         *)
(* The client is the record kegg.  Ids are numbered 1, 2, ...; a response  *)
(* is a status code (or a raised requests exception) and a body, and the   *)
(* body of the response to attempt a of a request is written a, so that    *)
(* two responses never have the same body.  Wall-clock time is not kept:   *)
(* _rate_limit is the event of its call and the count it increments, and a *)
(* backoff sleep is the event of its call with the time slept.             *)

\* the variables of the balancing scripts
balancer_vars == <<model_metabolites, reactions, input_reactions, balance_report,
                   pc, mi, ci, calls, ri, results, dry_run, fixes_made,
                   formula_input, parsed, runs>>

\* no balancing script is running
BalancerIdle ==
    /\ model_metabolites = <<>>
    /\ reactions = <<>>
    /\ input_reactions = <<>>
    /\ balance_report = EmptyReport
    /\ pc = "none"
    /\ mi = 1
    /\ ci = 1
    /\ calls = <<>>
    /\ ri = 1
    /\ results = EmptyResults
    /\ dry_run = FALSE
    /\ fixes_made = 0
    /\ formula_input = NoInput
    /\ parsed = NotParsed
    /\ runs = 0

\* longest list of ids given to a batched operation
MaxIds == 21

\* largest max_retries a client is constructed with
MaxRetries == 3

\* the chunk_size the three batched operations pass to _chunk_ids
CHUNK_SIZE == 10

Min(a, b) == IF a < b THEN a ELSE b

RECURSIVE Power(_, _)
Power(b, e) == IF e = 0 THEN 1 ELSE b * Power(b, e - 1)

\* backoff_factor as a fraction <<numerator, denominator>>: the default 1.5,
\* and 2
BackoffFactors == {<<3, 2>>, <<2, 1>>}

\* backoff_factor ** attempt
wait_time(backoff_factor, attempt) ==
    <<Power(backoff_factor[1], attempt), Power(backoff_factor[2], attempt)>>

\* what session.get does: a response with a status code, or a raised
\* requests.RequestException (connection error, timeout)
StatusCodes == {200, 204, 404, 429, 503}
Responses == {[raises |-> FALSE, status_code |-> s] : s \in StatusCodes}
RequestException == [raises |-> TRUE, status_code |-> 0]
Outcomes == Responses \cup {RequestException}

\* the batched operations
BatchedOperations == {"get_reactions", "get_compounds", "convert_ids"}

\* itertools.islice(iterator, chunk_size), as a list: the next chunk_size
\* items of the iterator, or those that are left
islice_one_more(rest, chunk_size) == SubSeq(rest, 1, Min(chunk_size + 1, Len(rest)))

islice(rest, chunk_size) == SubSeq(rest, 1, Min(chunk_size, Len(rest)))

\* the iterator after a chunk was taken from it
advance(rest, chunk) == SubSeq(rest, Len(chunk) + 1, Len(rest))

\* _rate_limit: the call is logged and request_count incremented
rate_limit(k) ==
    [k EXCEPT !.request_count = @ + 1,
              !.log = Append(@, [ev |-> "rate_limit"])]

\* time.sleep(self.backoff_factor ** attempt)
backoff_sleep(k) ==
    [k EXCEPT !.log = Append(@, [ev |-> "sleep",
                                 wait |-> wait_time(k.backoff_factor, k.attempt)])]

\* `for attempt in range(self.max_retries)`: the loop is over when attempt
\* has reached max_retries
range_exhausted_late(k, attempt) == attempt > k.max_retries

range_exhausted(k, attempt) == attempt >= k.max_retries

\* the end of one pass of the loop of _request: the next attempt, or, the
\* range being exhausted, `raise RuntimeError(...)`
next_attempt(k) ==
    IF range_exhausted(k, k.attempt + 1)
    THEN [k EXCEPT !.pc = "raised", !.raised = "RuntimeError"]
    ELSE [k EXCEPT !.attempt = @ + 1]

\* the except clause of _request: re-raise on the last attempt, otherwise
\* sleep and go on
on_request_exception(k, e) ==
    IF k.attempt = k.max_retries - 1
    THEN [k EXCEPT !.pc = "raised", !.raised = e]
    ELSE next_attempt(backoff_sleep(k))

\* one pass of the loop of _request, the server answering with outcome
request_attempt(k0, outcome) ==
    LET k1 == rate_limit(k0)
        k == [k1 EXCEPT !.log = Append(@, [ev |-> "get", outcome |-> outcome,
                                           body |-> k1.attempt])]
    IN  IF outcome.raises THEN on_request_exception(k, "RequestException")
        ELSE IF outcome.status_code = 200
        THEN [k EXCEPT !.pc = "chunk",
                       !.responses = Append(@, [ids |-> k.chunk, body |-> k.attempt])]
        ELSE IF outcome.status_code \in {429, 503} THEN next_attempt(backoff_sleep(k))
        ELSE IF outcome.status_code >= 400 THEN on_request_exception(k, "HTTPError")
        ELSE next_attempt(k)

\* the call of _request for a chunk: the loop starts at attempt 0, and with
\* max_retries = 0 it has no pass at all
start_request(k, chunk) ==
    LET k1 == [k EXCEPT !.chunk = chunk, !.attempt = 0, !.log = <<>>,
                        !.chunks = Append(@, chunk),
                        !.requests = Append(@, [op |-> k.op, ids |-> chunk])]
    IN  IF range_exhausted(k1, 0)
        THEN [k1 EXCEPT !.pc = "raised", !.raised = "RuntimeError"]
        ELSE [k1 EXCEPT !.pc = "request"]

\* KEGGClient(max_retries=..., backoff_factor=...) and the call of a batched
\* operation on a list of ids
InitKegg ==
    /\ \E n \in 0..MaxIds, op \in BatchedOperations,
          r \in 0..MaxRetries, f \in BackoffFactors :
          kegg = [pc |-> "chunk", op |-> op, max_retries |-> r, backoff_factor |-> f,
                  request_count |-> 0,
                  ids |-> [i \in 1..n |-> i], rest |-> [i \in 1..n |-> i],
                  chunk |-> <<>>, chunks |-> <<>>, requests |-> <<>>,
                  attempt |-> 0, log |-> <<>>, responses |-> <<>>,
                  raised |-> "none"]
    /\ validator = NotConstructed
    /\ pipeline = NotConstructed
    /\ enricher = NotConstructed
    /\ BalancerIdle

\* get_reactions, get_compounds, convert_ids: the loop asks _chunk_ids for
\* the next chunk and requests it, or returns when there is none
NextChunk ==
    /\ kegg.pc = "chunk"
    /\ LET chunk == islice(kegg.rest, CHUNK_SIZE)
       IN  kegg' = IF chunk = <<>> THEN [kegg EXCEPT !.pc = "returned"]
                   ELSE start_request([kegg EXCEPT !.rest = advance(@, chunk)], chunk)
    /\ UNCHANGED <<balancer_vars, validator, pipeline, enricher>>

\* _request: one pass of its loop
RequestAttempt ==
    /\ kegg.pc = "request"
    /\ \E outcome \in Outcomes : kegg' = request_attempt(kegg, outcome)
    /\ UNCHANGED <<balancer_vars, validator, pipeline, enricher>>

NextKegg == NextChunk \/ RequestAttempt

SpecKegg == InitKegg /\ [][NextKegg]_vars

\* the chunks one after the other
RECURSIVE Concatenated(_)
Concatenated(chunks) ==
    IF chunks = <<>> THEN <<>> ELSE Head(chunks) \o Concatenated(Tail(chunks))

\* C21: the chunks _chunk_ids yields hold between 1 and 10 ids each and,
\* one after the other, are the input list (followed, while the operation
\* runs, by the ids not yet yielded); every request of get_reactions,
\* get_compounds and convert_ids carries exactly one chunk, so no request has
\* more than 10 ids and no id is dropped or duplicated.
C21_ChunksPartitionTheIds ==
    /\ \A i \in 1..Len(kegg.chunks) :
          Len(kegg.chunks[i]) >= 1 /\ Len(kegg.chunks[i]) <= 10
    /\ Concatenated(kegg.chunks) \o kegg.rest = kegg.ids
    /\ kegg.pc = "returned" => Concatenated(kegg.chunks) = kegg.ids
    /\ Len(kegg.requests) = Len(kegg.chunks)
    /\ \A i \in 1..Len(kegg.requests) :
          /\ kegg.requests[i].ids = kegg.chunks[i]
          /\ Len(kegg.requests[i].ids) <= 10

\* an operation returned after requesting more than 10 ids in several
\* chunks, the last of them shorter than the others
C21_Witness ==
    /\ kegg.pc = "returned"
    /\ Len(kegg.ids) > 10
    /\ Len(kegg.chunks) >= 2
    /\ Len(kegg.chunks[Len(kegg.chunks)]) < Len(kegg.chunks[1])

\* the positions of the HTTP attempts in the log of the current _request call
Gets == {i \in 1..Len(kegg.log) : kegg.log[i].ev = "get"}

RateLimits == {i \in 1..Len(kegg.log) : kegg.log[i].ev = "rate_limit"}

\* the attempt at position i was answered 200; was answered 429 or 503
Answered200(i) ==
    ~kegg.log[i].outcome.raises /\ kegg.log[i].outcome.status_code = 200

AnsweredBusy(i) ==
    ~kegg.log[i].outcome.raises /\ kegg.log[i].outcome.status_code \in {429, 503}

\* the time slept after a 429 or 503 at attempt index a: backoff_factor to
\* the power a, as a fraction
ExpectedWait(a) ==
    <<Power(kegg.backoff_factor[1], a), Power(kegg.backoff_factor[2], a)>>

\* C22: a _request call makes at most max_retries HTTP attempts, each right
\* after one _rate_limit call; it returns exactly when an attempt is answered
\* 200, with the body of that (first) 200 response; and when all max_retries
\* attempts were answered 429 or 503, each was followed by a sleep of
\* backoff_factor ** attempt and the call has ended by raising RuntimeError.
C22_RequestRetriesAreBounded ==
    kegg.requests # <<>> =>
        /\ Cardinality(Gets) <= kegg.max_retries
        /\ Cardinality(RateLimits) = Cardinality(Gets)
        /\ \A i \in Gets : i > 1 /\ kegg.log[i - 1].ev = "rate_limit"
        /\ \A i \in Gets :
              Answered200(i) =>
                 /\ i = Len(kegg.log)
                 /\ kegg.pc \in {"chunk", "returned"}
                 /\ kegg.responses[Len(kegg.responses)] =
                       [ids |-> kegg.chunk, body |-> kegg.log[i].body]
        /\ kegg.pc \in {"chunk", "returned"} =>
              \E i \in Gets : Answered200(i)
        /\ (Cardinality(Gets) = kegg.max_retries /\ \A i \in Gets : AnsweredBusy(i))
              => /\ kegg.pc = "raised"
                 /\ kegg.raised = "RuntimeError"
                 /\ \A i \in Gets :
                       /\ i < Len(kegg.log)
                       /\ kegg.log[i + 1] =
                             [ev |-> "sleep", wait |-> ExpectedWait(kegg.log[i].body)]

\* a call that made max_retries = 3 attempts, all answered 429 or 503, and
\* raised
C22_Witness ==
    /\ kegg.pc = "raised"
    /\ kegg.max_retries = 3
    /\ Cardinality(Gets) = 3
    /\ \A i \in Gets : AnsweredBusy(i)
    /\ kegg.backoff_factor = <<3, 2>>
    /\ kegg.log[Len(kegg.log)] = [ev |-> "sleep", wait |-> <<9, 4>>]

----------------------------------------------------------------------------
(* scripts/validation/validate_final_model.py  (class ModelValidator)       *)
(*                                                                         *)
(* The validator is the record validator.  What the subprocesses, the      *)
(* files and the model's content decide is an input of the step that reads *)
(* it.  A score is a fraction <<numerator, denominator>> of a percentage;   *)
(* what run_validation returned is written "True" or "False".              *)

\* the six entries of `checks` in run_quality_checks, in the order set
QualityChecks == <<"biomass_present", "biomass_functional", "ngam_present",
                   "metabolite_annotation_adequate", "gene_associations_present",
                   "model_size_reasonable">>

\* what the model's content can make of them: biomass_functional is False
\* when there is no biomass reaction
CheckOutcomes ==
    {c \in [Range(QualityChecks) -> BOOLEAN] :
        ~c["biomass_present"] => ~c["biomass_functional"]}

\* sum(checks.values())
passed_checks(checks) == Cardinality({k \in DOMAIN checks : checks[k]})

\* what running scripts/fba_smoke.py can give run_fba_test: the subprocess
\* raises (timeout) or returns a code; the log exists or not, holds a `{` or
\* not, parses as JSON or not, and says a status and an objective value
FbaRuns ==
    {[raises |-> TRUE, returncode |-> 1, log |-> "none", status |-> "none",
      objective_positive |-> FALSE],
     [raises |-> FALSE, returncode |-> 1, log |-> "none", status |-> "none",
      objective_positive |-> FALSE]}
    \cup {[raises |-> FALSE, returncode |-> 0, log |-> l, status |-> "none",
           objective_positive |-> FALSE] : l \in {"missing", "no_json", "bad_json"}}
    \cup {[raises |-> FALSE, returncode |-> 0, log |-> "json", status |-> s,
           objective_positive |-> p] : s \in {"optimal", "infeasible"}, p \in BOOLEAN}

\* run_fba_test: what it returns and what it leaves in
\* validation_results['fba_test'] (here its 'status', "none" when not set)
run_fba_test(run) ==
    IF run.raises THEN [passed |-> FALSE, status |-> "none"]
    ELSE IF run.returncode = 0
    THEN IF run.log = "json"
         THEN [passed |-> run.status = "optimal" /\ run.objective_positive,
               status |-> run.status]
         ELSE IF run.log = "bad_json" THEN [passed |-> FALSE, status |-> "none"]
         ELSE [passed |-> TRUE, status |-> "none"]
    ELSE [passed |-> FALSE, status |-> "none"]

\* what running memote can give run_memote_test
MemoteRuns ==
    {[raises |-> TRUE, returncode |-> 1, report_exists |-> FALSE],
     [raises |-> FALSE, returncode |-> 1, report_exists |-> FALSE],
     [raises |-> FALSE, returncode |-> 0, report_exists |-> FALSE],
     [raises |-> FALSE, returncode |-> 0, report_exists |-> TRUE]}

\* the placeholder score of a generated report
MEMOTE_PLACEHOLDER == 75

\* run_memote_test: (passed, score) and validation_results['memote_test']
\* (here its 'score', 0 when not set)
run_memote_test(run) ==
    IF ~run.raises /\ run.returncode = 0
    THEN LET score == IF run.report_exists THEN MEMOTE_PLACEHOLDER ELSE 0
         IN  [passed |-> score >= 80, score |-> score]
    ELSE [passed |-> FALSE, score |-> 0]

\* calculate_final_score: fba_score * 0.25 + memote_score * 0.50 +
\* quality_score * 0.25 with quality_score = sum(checks) / len(checks) * 100,
\* over the common denominator 4 * len(checks)
calculate_final_score(v) ==
    LET fba_score == IF v.fba_status = "optimal" THEN 100 ELSE 0
        total == Len(QualityChecks)
    IN  <<fba_score * total + 2 * v.memote_score * total
            + passed_checks(v.quality_checks) * 100,
          4 * total>>

\* score >= 80.0
at_least_80(score) == score[1] >= 80 * score[2]

\* validation_passed = final_score >= 80.0 and fba_passed
validation_passed_on_score_alone(final_score, fba_passed) == at_least_80(final_score)

validation_passed(final_score, fba_passed) == at_least_80(final_score) /\ fba_passed

\* ModelValidator(model_path, output_path): the model is loaded and nothing
\* is at the output path
InitValidator ==
    /\ validator = [pc |-> "collect_model_stats",
                    fba_passed |-> FALSE, fba_status |-> "none",
                    memote_passed |-> FALSE, memote_score |-> 0,
                    quality_checks |-> [k \in Range(QualityChecks) |-> FALSE],
                    quality_passed |-> FALSE,
                    final_score |-> <<0, 1>>, passed |-> FALSE,
                    promote_called |-> FALSE, output_written |-> FALSE,
                    report_saved |-> FALSE, returned |-> "none"]
    /\ kegg = NotConstructed
    /\ pipeline = NotConstructed
    /\ enricher = NotConstructed
    /\ BalancerIdle

\* the except clause of run_validation
validation_exception(v) == [v EXCEPT !.pc = "returned", !.returned = "False"]

\* Phase 1: collect_model_stats; it divides by the numbers of reactions,
\* metabolites and genes and raises when one of them is 0
CollectModelStats ==
    /\ validator.pc = "collect_model_stats"
    /\ \E empty_model \in BOOLEAN :
          validator' = IF empty_model THEN validation_exception(validator)
                       ELSE [validator EXCEPT !.pc = "run_fba_test"]
    /\ UNCHANGED <<balancer_vars, kegg, pipeline, enricher>>

\* Phase 2: run_fba_test
RunFbaTest ==
    /\ validator.pc = "run_fba_test"
    /\ \E run \in FbaRuns :
          LET fba == run_fba_test(run)
          IN  validator' = [validator EXCEPT !.pc = "run_memote_test",
                                             !.fba_passed = fba.passed,
                                             !.fba_status = fba.status]
    /\ UNCHANGED <<balancer_vars, kegg, pipeline, enricher>>

\* Phase 3: run_memote_test
RunMemoteTest ==
    /\ validator.pc = "run_memote_test"
    /\ \E run \in MemoteRuns :
          LET memote == run_memote_test(run)
          IN  validator' = [validator EXCEPT !.pc = "run_quality_checks",
                                             !.memote_passed = memote.passed,
                                             !.memote_score = memote.score]
    /\ UNCHANGED <<balancer_vars, kegg, pipeline, enricher>>

\* Phase 4: run_quality_checks; 80% of the checks must pass
RunQualityChecks ==
    /\ validator.pc = "run_quality_checks"
    /\ \E checks \in CheckOutcomes :
          validator' = [validator EXCEPT
                           !.pc = "calculate_final_score",
                           !.quality_checks = checks,
                           !.quality_passed =
                               passed_checks(checks) * 10 >= Len(QualityChecks) * 8]
    /\ UNCHANGED <<balancer_vars, kegg, pipeline, enricher>>

\* Phases 5 to 7: calculate_final_score, pass or fail, promote_model when
\* passed; cobra.io.write_sbml_model writes the output or raises, and a
\* failed promotion makes run_validation return False at once
Promote ==
    /\ validator.pc = "calculate_final_score"
    /\ LET final_score == calculate_final_score(validator)
           passed == validation_passed(final_score, validator.fba_passed)
           v == [validator EXCEPT !.final_score = final_score, !.passed = passed]
       IN  IF passed
           THEN \E promotion_success \in BOOLEAN :
                   validator' =
                      IF promotion_success
                      THEN [v EXCEPT !.pc = "save_validation_report",
                                     !.promote_called = TRUE,
                                     !.output_written = TRUE]
                      ELSE [v EXCEPT !.pc = "returned", !.returned = "False",
                                     !.promote_called = TRUE]
           ELSE validator' = [v EXCEPT !.pc = "save_validation_report"]
    /\ UNCHANGED <<balancer_vars, kegg, pipeline, enricher>>

\* Phase 8: save_validation_report (it catches its own exceptions), then
\* `return validation_passed`
SaveValidationReport ==
    /\ validator.pc = "save_validation_report"
    /\ \E saved \in BOOLEAN :
          validator' = [validator EXCEPT !.pc = "returned",
                                         !.report_saved = saved,
                                         !.returned = IF validator.passed THEN "True" ELSE "False"]
    /\ UNCHANGED <<balancer_vars, kegg, pipeline, enricher>>

NextValidator ==
    \/ CollectModelStats
    \/ RunFbaTest
    \/ RunMemoteTest
    \/ RunQualityChecks
    \/ Promote
    \/ SaveValidationReport

SpecValidator == InitValidator /\ [][NextValidator]_vars

\* the final score as the documented weights give it, from what the three
\* tests left: 25 for an optimal FBA status, half the MEMOTE score, and 25
\* times the share of quality checks passed; times 24 to stay whole
Score24 ==
    (IF validator.fba_status = "optimal" THEN 25 * 24 ELSE 0)
    + 12 * validator.memote_score
    + 100 * Cardinality({k \in DOMAIN validator.quality_checks :
                            validator.quality_checks[k]})

\* C23: run_validation calls promote_model, and the model is written to the
\* output location, only when the final score is at least 80 and the FBA
\* test passed; and it returns True only if the model was promoted.
C23_PromotedOnlyWhenPassed ==
    /\ validator.promote_called => (Score24 >= 80 * 24 /\ validator.fba_passed)
    /\ validator.output_written => validator.promote_called
    /\ validator.returned = "True" => validator.output_written

\* a validation that passed and promoted, and returned True
C23_Witness ==
    /\ validator.pc = "returned"
    /\ validator.returned = "True"
    /\ validator.output_written
    /\ Score24 < 87 * 24

----------------------------------------------------------------------------
(* scripts/pipeline/run_pipeline_sequential.py  (class SequentialPipeline)  *)
(*                                                                         *)
(* The pipeline is the record pipeline.  Stages are numbered 1..4 in the   *)
(* order of self.stages; file 0 is the base model and file i the output of *)
(* stage i, so the input of stage i is file i - 1.  What run_pipeline      *)
(* returned is written "True" or "False".                                  *)

\* self.stages
Stages == <<"Balance Mass and Charge", "API Enrichment", "Biomass Optimization",
            "Final Validation">>

\* stage['input'] and stage['output']
input_of(i) == i - 1

output_of(i) == i

\* what the subprocess of a stage can do: return 0, return another code, time
\* out, or fail to start (any other exception); and leave its output file
\* written or not
StageRuns ==
    [kind : {"returncode_0", "returncode_1", "TimeoutExpired", "Exception"},
     writes_output : BOOLEAN]

\* run_stage: (success, message) reduced to success, and whether the
\* subprocess was launched; a missing input fails the stage before the launch
run_stage(p, i, run) ==
    IF input_of(i) \notin p.files THEN [success |-> FALSE, launched |-> FALSE]
    ELSE [success |-> run.kind = "returncode_0", launched |-> TRUE]

\* `if not success: ... return False`: a failed stage ends run_pipeline
after_stage_ignoring_failure(p, success) == [p EXCEPT !.pc = "post_stage"]

after_stage(p, success) ==
    IF success THEN [p EXCEPT !.pc = "post_stage"]
    ELSE [p EXCEPT !.pc = "returned", !.returned = "False"]

\* what the subprocess of a post-stage check can do
CheckRuns == {"returncode_0", "returncode_1", "TimeoutExpired", "Exception"}

\* run_fba_check and run_memote_check (its score is the placeholder 0.0):
\* success is a return code of 0, everything else is caught and is a failure
run_fba_check(run) == run = "returncode_0"

run_memote_check(run) == run = "returncode_0"

\* SequentialPipeline(base_model, final_output) and the call of
\* run_pipeline(skip_validation); any of the files may exist already
InitPipeline ==
    /\ \E files \in SUBSET (0..Len(Stages)), skip_validation \in BOOLEAN :
          pipeline = [pc |-> "check_dependencies", skip_validation |-> skip_validation,
                      files |-> files, i |-> 1,
                      started |-> <<>>, launched |-> <<>>, stage_results |-> <<>>,
                      checks |-> <<>>, interrupted |-> FALSE, returned |-> "none"]
    /\ kegg = NotConstructed
    /\ validator = NotConstructed
    /\ enricher = NotConstructed
    /\ BalancerIdle

\* check_dependencies: a missing script or module makes run_pipeline return
\* False before any stage
CheckDependencies ==
    /\ pipeline.pc = "check_dependencies"
    /\ \E satisfied \in BOOLEAN :
          pipeline' = IF satisfied THEN [pipeline EXCEPT !.pc = "run_stage"]
                      ELSE [pipeline EXCEPT !.pc = "returned", !.returned = "False"]
    /\ UNCHANGED <<balancer_vars, kegg, validator, enricher>>

\* one pass of the loop of run_pipeline up to the test of success:
\* run_stage(stage), stage_results.append, `return False` on failure
RunStage ==
    /\ pipeline.pc = "run_stage"
    /\ \E run \in StageRuns :
          LET i == pipeline.i
              result == run_stage(pipeline, i, run)
              p == [pipeline EXCEPT
                       !.started = Append(@, i),
                       !.launched = IF result.launched THEN Append(@, i) ELSE @,
                       !.files = IF result.launched /\ run.writes_output
                                 THEN @ \cup {output_of(i)} ELSE @,
                       !.stage_results = Append(@, [name |-> Stages[i],
                                                    success |-> result.success])]
          IN  pipeline' = after_stage(p, result.success)
    /\ UNCHANGED <<balancer_vars, kegg, validator, enricher>>

\* the rest of the pass: the post-stage FBA and MEMOTE checks when they are
\* not skipped and the output exists, then the next stage, or, after the
\* last one, the summary and `return True`
PostStage ==
    /\ pipeline.pc = "post_stage"
    /\ \E fba \in CheckRuns, memote \in CheckRuns :
          LET i == pipeline.i
              validate == ~pipeline.skip_validation /\ output_of(i) \in pipeline.files
              p == [pipeline EXCEPT
                       !.checks = IF validate
                                  THEN Append(@, [stage |-> i,
                                                  fba_success |-> run_fba_check(fba),
                                                  memote_success |-> run_memote_check(memote)])
                                  ELSE @]
          IN  pipeline' = IF i < Len(Stages)
                          THEN [p EXCEPT !.pc = "run_stage", !.i = i + 1]
                          ELSE [p EXCEPT !.pc = "returned", !.returned = "True"]
    /\ UNCHANGED <<balancer_vars, kegg, validator, enricher>>

\* `except KeyboardInterrupt`: the user interrupts the run, wherever it is
KeyboardInterrupt ==
    /\ pipeline.pc \in {"check_dependencies", "run_stage", "post_stage"}
    /\ pipeline' = [pipeline EXCEPT !.pc = "returned", !.returned = "False",
                                    !.interrupted = TRUE]
    /\ UNCHANGED <<balancer_vars, kegg, validator, enricher>>

NextPipeline == CheckDependencies \/ RunStage \/ PostStage \/ KeyboardInterrupt

SpecPipeline == InitPipeline /\ [][NextPipeline]_vars

\* the stages that returned success
Succeeded == {k \in 1..Len(pipeline.stage_results) : pipeline.stage_results[k].success}

\* C28: run_pipeline starts the stages in their listed order, starts a stage
\* only after the one before it returned success, starts none after a stage
\* failed, and returns True only if all four stages succeeded; a failed
\* post-stage FBA or MEMOTE check neither stops it nor changes what it
\* returns: unless the user interrupts, the next stage is started all the
\* same and a run whose four stages succeeded returns True.
C28_StagesInOrderUntilFirstFailure ==
    /\ pipeline.started = [k \in 1..Len(pipeline.started) |-> k]
    /\ Len(pipeline.started) <= Len(Stages)
    /\ \A k \in 2..Len(pipeline.started) : (k - 1) \in Succeeded
    /\ \A k \in 1..Len(pipeline.stage_results) :
          ~pipeline.stage_results[k].success => Len(pipeline.started) = k
    /\ pipeline.returned = "True" => Succeeded = 1..Len(Stages)
    /\ \A c \in 1..Len(pipeline.checks) :
          LET check == pipeline.checks[c]
          IN  (pipeline.pc = "returned" /\ ~pipeline.interrupted
               /\ (~check.fba_success \/ ~check.memote_success))
              => IF check.stage < Len(Stages)
                 THEN Len(pipeline.started) > check.stage
                 ELSE pipeline.returned = "True"
    /\ (pipeline.pc = "returned" /\ ~pipeline.interrupted
        /\ Succeeded = 1..Len(Stages)) => pipeline.returned = "True"

\* a run that returned True although the checks after a stage failed
C28_Witness ==
    /\ pipeline.pc = "returned"
    /\ pipeline.returned = "True"
    /\ \E c \in 1..Len(pipeline.checks) :
          ~pipeline.checks[c].fba_success /\ ~pipeline.checks[c].memote_success

----------------------------------------------------------------------------
(* scripts/annotation/enrich_model_apis.py  (APIEnricher.api_request)       *)
(*                                                                         *)
(* The enricher is the record enricher.  The server is a script of         *)
(* answers: a finite prefix, then the same answer for ever.                *)
(*                                                                         *)
(* requests / urllib3.  self.session is built by setup_session with an     *)
(* HTTPAdapter(max_retries=Retry(total=3, status_forcelist=[429, 500, 502, *)
(* 503, 504])).  As that library implements it (raise_on_status is True by *)
(* default), session.get itself re-sends the request after a connection    *)
(* error or a status of the force list, at most `total` times, and when    *)
(* the retries are used up it RAISES (requests.exceptions.RetryError or    *)
(* ConnectionError) instead of returning the last response.  The time      *)
(* slept (rate_limit, the backoff, the 60 s) is not kept.                  *)

\* longest prefix of a server's script
MaxResponses == 2

\* Retry(total=3, ...)
RETRY_TOTAL == 3

\* status_forcelist
status_forcelist == {429, 500, 502, 503, 504}

\* `% 50` of the periodic cache saving
SAVE_EVERY == 50

\* RATE_LIMITS.keys()
Apis == {"kegg", "chebi", "pubchem", "rhea", "uniprot"}

\* one answer of the server: a response with a status code (for 200, a body
\* that response.json() / response.text can read, or a body announced as
\* json that response.json() cannot read), or no response (connection error)
ServerAnswers == {"200", "200_invalid_json", "404", "429", "503", "ConnectionError"}

status_code(answer) ==
    CASE answer \in {"200", "200_invalid_json"} -> 200
      [] answer = "404" -> 404
      [] answer = "429" -> 429
      [] answer = "503" -> 503
      [] OTHER -> 0

\* the answer to the next request sent
next_answer(e) ==
    IF e.pos <= Len(e.server.prefix) THEN e.server.prefix[e.pos] ELSE e.server.forever

\* urllib3 Retry.is_retry / connection errors: the adapter sends again
is_retry(answer) ==
    answer = "ConnectionError" \/ status_code(answer) \in status_forcelist

\* APIEnricher(...) and the call api_request(api, url, params): the cache of
\* the api holds the key or not, and some calls were made before
InitEnricher ==
    /\ \E api \in Apis, cached \in BOOLEAN, made \in {0, SAVE_EVERY - 1},
          n \in 0..MaxResponses, forever \in ServerAnswers :
          \E prefix \in [1..n -> ServerAnswers] :
             enricher = [pc |-> "api_request", api |-> api,
                         cached |-> cached, cache_saved |-> FALSE,
                         api_calls_made_mod |-> made, errors |-> 0,
                         server |-> [prefix |-> prefix, forever |-> forever],
                         pos |-> 1, retries_left |-> 0, sent |-> <<>>,
                         delivered |-> "none", returned |-> "none"]
    /\ kegg = NotConstructed
    /\ validator = NotConstructed
    /\ pipeline = NotConstructed
    /\ BalancerIdle

\* api_request up to session.get: a cached value is returned at once;
\* otherwise rate_limit(api) sleeps and the request goes to the session
ApiRequest ==
    /\ enricher.pc = "api_request"
    /\ enricher' = IF enricher.cached
                   THEN [enricher EXCEPT !.pc = "returned", !.returned = "cached"]
                   ELSE [enricher EXCEPT !.pc = "session_get",
                                         !.retries_left = RETRY_TOTAL,
                                         !.sent = <<>>]
    /\ UNCHANGED <<balancer_vars, kegg, validator, pipeline>>

\* self.session.get(url, params=params, timeout=30): the adapter sends the
\* request once; on a connection error or a status of the force list it
\* sends again while retries are left and raises when they are used up;
\* any other response is delivered to api_request
SessionGet ==
    /\ enricher.pc = "session_get"
    /\ LET answer == next_answer(enricher)
           e == [enricher EXCEPT !.sent = Append(@, answer),
                                 !.pos = IF @ <= Len(enricher.server.prefix)
                                         THEN @ + 1 ELSE @]
       IN  enricher' =
              IF is_retry(answer)
              THEN IF enricher.retries_left = 0
                   THEN [e EXCEPT !.pc = "response", !.delivered = "Exception"]
                   ELSE [e EXCEPT !.retries_left = @ - 1]
              ELSE [e EXCEPT !.pc = "response", !.delivered = answer]
    /\ UNCHANGED <<balancer_vars, kegg, validator, pipeline>>

\* `except Exception`: the error is counted and None returned
handle_exception_retrying(e) ==
    [e EXCEPT !.pc = "api_request", !.errors = 1]

handle_exception(e) ==
    [e EXCEPT !.pc = "returned", !.returned = "None", !.errors = @ + 1]

\* the body of the try block of api_request after session.get returned
handle_response(e0) ==
    LET made == (e0.api_calls_made_mod + 1) % SAVE_EVERY
        e == [e0 EXCEPT !.api_calls_made_mod = made]
    IN  IF status_code(e.delivered) = 200
        THEN IF e.delivered = "200_invalid_json" THEN handle_exception(e)
             ELSE [e EXCEPT !.pc = "returned", !.returned = "data",
                            !.cached = TRUE,
                            !.cache_saved = (made = 0)]
        ELSE IF status_code(e.delivered) = 429
        THEN [e EXCEPT !.pc = "api_request"]
        ELSE [e EXCEPT !.pc = "returned", !.returned = "None"]

\* api_request after session.get: the response is handled, or the exception
\* the session raised is caught
HandleResponse ==
    /\ enricher.pc = "response"
    /\ enricher' = IF enricher.delivered = "Exception" THEN handle_exception(enricher)
                   ELSE handle_response(enricher)
    /\ UNCHANGED <<balancer_vars, kegg, validator, pipeline>>

NextEnricher == ApiRequest \/ SessionGet \/ HandleResponse

\* the call is one thread of a synchronous program and every step of it ends
\* (session.get has a timeout), so a step that can be taken is taken
SpecEnricher == InitEnricher /\ [][NextEnricher]_vars /\ WF_vars(NextEnricher)

\* C29: whatever the server answers, api_request eventually returns (a
\* cached value, the response data or None): it does not retry for ever,
\* also when the server answers 429 to every request.
C29_ApiRequestReturns ==
    <>(enricher.pc = "returned" /\ enricher.returned \in {"cached", "data", "None"})

\* the call returned None from a server that answers 429 to every request
C29_Witness ==
    /\ enricher.pc = "returned"
    /\ enricher.returned = "None"
    /\ enricher.server = [prefix |-> <<>>, forever |-> "429"]
    /\ Len(enricher.sent) = RETRY_TOTAL + 1

====
